---- MODULE Spec2Model ----
(***************************************************************************)
(* A model of streetview-dl: the tile download and stitching pipeline of   *)
(* StreetViewDownloader (streetview_dl/core.py), the equirectangular       *)
(* croppers of streetview_dl/utils.py, the URL resolver of                 *)
(* streetview_dl/metadata.py and the command line of streetview_dl/cli.py. *)
(*                                                                         *)
(* The specifications share the module's variables:                        *)
(*   Spec      one downloader instance: get_metadata / download_panorama,  *)
(*             with the executor's worker threads and the retrying HTTP    *)
(*             session;                                                    *)
(*   SpecPlan  the tile grid computation over a wider range of metadata;   *)
(*   SpecCrop  crop_fov and crop_horizontal_section applied to bounded     *)
(*             images, yaws, fields of view and clip directions;           *)
(*   SpecBottom   crop_bottom_fraction over heights and keep fractions;    *)
(*   SpecProcess  the image processing stages of process_single_url;       *)
(*   SpecSession  any sequence of get_metadata / download_panorama calls   *)
(*                on one downloader, with the requests it sends;           *)
(*   SpecCancel   Spec with KeyboardInterrupt in the coordinating thread;  *)
(*   SpecCli      main, process_batch and process_single_url as control    *)
(*                flow over URLs, failures, interrupts and files;          *)
(*   SpecResolve  extract_from_maps_url and its callers;                   *)
(*   SpecEstimate the tile counts of process_single_url's progress display *)
(*                next to the grid download_panorama plans;                *)
(*   SpecTune     determine_concurrency;                                   *)
(*   SpecRetry    the attempts of one HTTP call under the Retry policy;    *)
(*   SpecFair     Spec with fair scheduling of its threads.                *)
(***************************************************************************)
EXTENDS Integers, Sequences, FiniteSets, TLC

VARIABLES
    pc,               \* position of the calling (coordinating) thread
    meta,             \* StreetViewMetadata: image_width, image_height, tile_width, tile_height
    quality,          \* the quality argument
    concurrency,      \* the concurrency argument
    retries,          \* the retries argument of __init__
    session_cache,    \* self._session_cache
    http_attempts,    \* requests sent so far by the caller's current HTTP call
    main_status,      \* status of the response that ended the caller's last HTTP call
    grid,             \* z, scale_factor, scaled_*, tiles_*, canvas_*, total_tiles
    canvas,           \* the canvas image of download_panorama
    completed_tiles,  \* the completed_tiles counter
    submitted,        \* number of coords already handed to executor.submit
    work_queue,       \* the executor's queue of submitted, not yet started coords
    running,          \* coords whose fetch_coord is executing on a worker thread
    attempts,         \* per coord: requests sent to the tile endpoint
    final_status,     \* per coord: status of the response that ended fetch_tile's request
    future,           \* per coord: the state and outcome of its future
    consumed,         \* coords whose future as_completed has already yielded
    cur,              \* the (x, y, tile) the caller took from fut.result()
    writers,          \* threads currently executing canvas.paste
    panorama,         \* what download_panorama returned (a one-element sequence)
    image,            \* crop_fov: the input image
    center_yaw,       \* crop_fov: the center_yaw argument
    fov_degrees,      \* crop_fov: the fov_degrees argument
    cropped,          \* the cropper's outcome
    clip_direction,   \* crop_horizontal_section: the clip_direction argument
    keep_fraction,    \* crop_bottom_fraction: keep_fraction, in eighths
    url_yaw,          \* process_single_url: street_view_metadata.url_yaw, <<>> for None
    max_width,        \* process_single_url: max_width, 0 when not given
    image_filter,     \* process_single_url: image_filter
    files,            \* the files written so far, by role
    sent,             \* SpecSession: the distinct requests the instance has sent
    calls,            \* SpecSession: method calls made on the instance so far
    session,          \* SpecSession: the local variable session of the running call
    tiles_left,       \* SpecSession: tile fetches the running download still has to make
    urls,             \* SpecCli: the URL argument, or the URLs of the batch file, by kind
    batch,            \* SpecCli: whether --batch was given
    url_index,        \* SpecCli: the loop variable i of process_batch (1 for a single URL)
    success_count,    \* SpecCli: process_batch's success_count
    error_count,      \* SpecCli: process_batch's error_count
    metadata,         \* SpecCli: --metadata
    metadata_only,    \* SpecCli: --metadata-only
    api_key_ok,       \* SpecCli: whether a well-formed API key is configured
    interrupted,      \* SpecCli: where KeyboardInterrupt was raised, "" if nowhere
    processed,        \* SpecCli: the URL indexes process_single_url was called with, in order
    url,              \* SpecResolve: the Google Maps URL, by its parts
    resolved,         \* SpecResolve: what extract_from_maps_url returned
    progress,         \* process_single_url: tiles_x, tiles_y, total_tiles for progress
    cpu_count,        \* determine_concurrency: os.cpu_count(), 0 for None
    env,              \* determine_concurrency: STREETVIEW_DL_CONCURRENCY, "" when unset
    tuned,            \* determine_concurrency: the returned worker count
    history,          \* SpecRetry: how each attempt of the HTTP request ended, in order
    applied           \* process_single_url: the processing calls made on the image, in order

vars == <<pc, meta, quality, concurrency, retries, session_cache, http_attempts,
          main_status, grid, canvas, completed_tiles, submitted, work_queue,
          running, attempts, final_status, future, consumed, cur,
          writers, panorama, image, center_yaw, fov_degrees, cropped,
          clip_direction, keep_fraction, url_yaw, max_width, image_filter, files,
          sent, calls, session, tiles_left, urls, batch, url_index,
          success_count, error_count, metadata, metadata_only, api_key_ok,
          interrupted, processed, url, resolved, progress, cpu_count, env, tuned,
          history, applied>>

downloadVars == <<session_cache, http_attempts, main_status, canvas,
                  completed_tiles, submitted, work_queue, running, attempts,
                  final_status, future, consumed, cur, writers, panorama>>

cropVars == <<image, center_yaw, fov_degrees, cropped, clip_direction, keep_fraction>>

processVars == <<url_yaw, max_width, image_filter, files, applied>>

sessionVars == <<sent, calls, session, tiles_left>>

cliLocals == <<progress, cpu_count, env, tuned>>

cliVars == <<urls, batch, url_index, success_count, error_count, metadata,
             metadata_only, api_key_ok, interrupted, processed, cliLocals>>

resolveVars == <<url, resolved>>

retryVars == <<history>>

cropInputs == <<image, center_yaw, fov_degrees, clip_direction, keep_fraction>>

(***************************************************************************)
(* Bounds of the model.                                                    *)
(***************************************************************************)
MaxImageWidth == 3
MaxImageHeight == 4
TileWidth == 2
TileHeight == 3
MaxConcurrency == 2
MaxRetries == 1
MaxPlanImage == 12
MaxPlanTile == 3
MaxCropWidth == 12
MaxCropHeight == 3

Qualities == {"low", "medium", "high"}
\* concurrency: 0 (and 1) give one worker, MaxConcurrency gives several
Concurrencies == {0, MaxConcurrency}
PlanQualities == Qualities \cup {"ultra"}

(***************************************************************************)
(* Images (PIL.Image): a size and a pixel for every position.  A pixel is  *)
(* a tuple naming where it comes from; Image.new("RGB", size) is black.    *)
(***************************************************************************)
Background == <<>>

Positions(w, h) == (0 .. w - 1) \X (0 .. h - 1)

NewImage(w, h) == [w |-> w, h |-> h, px |-> [p \in Positions(w, h) |-> Background]]

\* Image.paste(src, (ox, oy)): src is written at the offset, clipped to dst.
Paste(dst, src, ox, oy) ==
    [dst EXCEPT !.px = [p \in DOMAIN dst.px |->
        IF /\ p[1] - ox \in 0 .. src.w - 1
           /\ p[2] - oy \in 0 .. src.h - 1
        THEN src.px[<<p[1] - ox, p[2] - oy>>]
        ELSE dst.px[p]]]

\* Image.crop((left, upper, right, lower)) raises ValueError on an inverted box.
CropRaises(left, upper, right, lower) == right < left \/ lower < upper

\* Image.crop((left, upper, right, lower)): the box's size; black outside src.
Crop(src, left, upper, right, lower) ==
    [w |-> right - left, h |-> lower - upper,
     px |-> [p \in Positions(right - left, lower - upper) |->
        IF /\ p[1] + left \in 0 .. src.w - 1
           /\ p[2] + upper \in 0 .. src.h - 1
        THEN src.px[<<p[1] + left, p[2] + upper>>]
        ELSE Background]]

NoImage == [w |-> 0, h |-> 0, px |-> <<>>]

(***************************************************************************)
(* Tile grid planning (download_panorama, core.py 107-123).                *)
(***************************************************************************)
zoom_map(q) ==
    CASE q = "low" -> 3
      [] q = "medium" -> 4
      [] q = "high" -> 5
      [] OTHER -> 5

\* math.ceil(a / b) for a >= 0, b > 0
CeilFloor(a, b) == a \div b

Ceil(a, b) == IF a % b = 0 THEN a \div b ELSE (a \div b) + 1

TileGrid(m, q) ==
    LET z == zoom_map(q)
        scale_factor == 2 ^ (5 - z)
        scaled_width == m.image_width \div scale_factor
        scaled_height == m.image_height \div scale_factor
        tiles_x == Ceil(scaled_width, m.tile_width)
        tiles_y == Ceil(scaled_height, m.tile_height)
    IN  [z |-> z, scale_factor |-> scale_factor,
         scaled_width |-> scaled_width, scaled_height |-> scaled_height,
         tiles_x |-> tiles_x, tiles_y |-> tiles_y,
         canvas_width |-> tiles_x * m.tile_width,
         canvas_height |-> tiles_y * m.tile_height,
         total_tiles |-> tiles_x * tiles_y]

NoGrid == [z |-> 0, scale_factor |-> 0, scaled_width |-> 0, scaled_height |-> 0,
           tiles_x |-> 0, tiles_y |-> 0, canvas_width |-> 0, canvas_height |-> 0,
           total_tiles |-> 0]

coords_transposed(g) == [i \in 1 .. g.tiles_x * g.tiles_y |->
                          <<(i - 1) \div g.tiles_x, (i - 1) % g.tiles_x>>]

\* coords = [(x, y) for y in range(tiles_y) for x in range(tiles_x)]
coords(g) == [i \in 1 .. g.tiles_x * g.tiles_y |->
                <<(i - 1) % g.tiles_x, (i - 1) \div g.tiles_x>>]

CoordSet(g) == {coords(g)[i] : i \in 1 .. g.tiles_x * g.tiles_y}

(***************************************************************************)
(* The retrying HTTP session (_build_session, core.py 30-47): urllib3's    *)
(* Retry(total=retries, read=retries, connect=retries, status=retries,     *)
(* status_forcelist=[429, 500, 502, 503, 504], raise_on_status=False).     *)
(***************************************************************************)
status_forcelist == {429, 500, 502, 503, 504}

Http(status, decodable) == [kind |-> "http", status |-> status, decodable |-> decodable]

TimedOut == [kind |-> "timeout", status |-> 0, decodable |-> FALSE]

\* What the service may answer to a createSession or metadata request.
ApiResponses == {Http(200, TRUE), Http(403, TRUE), Http(503, TRUE), TimedOut}

\* What the tile endpoint may answer: also 200 with a body PIL cannot decode.
TileResponses == ApiResponses \cup {Http(200, FALSE)}

\* The adapter after the made-th request of one call got resp: send again
\* ("retry"), hand the response to the caller ("response"), or raise
\* MaxRetryError, which requests turns into a ConnectionError ("raise").
Retry_one_short(resp, made, total) ==
    IF resp.kind = "timeout"
    THEN IF made < total THEN "retry" ELSE "raise"
    ELSE IF resp.status \in status_forcelist
         THEN IF made < total THEN "retry" ELSE "response"
         ELSE "response"

Retry(resp, made, total) ==
    IF resp.kind = "timeout"
    THEN IF made <= total THEN "retry" ELSE "raise"
    ELSE IF resp.status \in status_forcelist
         THEN IF made <= total THEN "retry" ELSE "response"
         ELSE "response"

\* response.raise_for_status() raises HTTPError
raise_for_status(resp) == resp.status >= 400

\* The exceptions that are requests.exceptions.RequestException
RequestException == {"HTTPError", "ConnectionError"}

(***************************************************************************)
(* SpecRetry: one HTTP call through self._http - the createSession POST,   *)
(* the metadata GET or a tile GET - as HTTPAdapter.send hands it to        *)
(* urllib3 with the Retry object of _build_session.  An attempt ends with  *)
(* a response (its status, and whether it carries a Retry-After header) or *)
(* with an error; history records the attempts of the call.                *)
(***************************************************************************)
allowed_methods == {"GET", "POST"}

\* Retry.RETRY_AFTER_STATUS_CODES; respect_retry_after_header is left at True
RETRY_AFTER_STATUS_CODES == {413, 429, 503}

Response(status, retry_after) ==
    [kind |-> "http", status |-> status, retry_after |-> retry_after, error |-> ""]

Failure(error) == [kind |-> "error", status |-> 0, retry_after |-> FALSE, error |-> error]

Statuses == {200, 403, 404, 413, 429, 500, 502, 503, 504}

\* connect timeout, read timeout, connection reset while reading
Errors == {"ConnectTimeoutError", "ReadTimeoutError", "ProtocolError"}

Outcomes ==
    {Response(st, ra) : st \in Statuses, ra \in BOOLEAN} \cup {Failure(e) : e \in Errors}

\* Retry.is_retry(method, status_code, has_retry_after), with total_left the
\* Retry object's remaining total
is_retry(method, o, total_left) ==
    /\ method \in allowed_methods
    /\ \/ o.status \in status_forcelist
       \/ /\ total_left > 0
          /\ o.retry_after
          /\ o.status \in RETRY_AFTER_STATUS_CODES

\* urlopen after the made-th attempt of a call ended with o: Retry.increment
\* takes one from total; an exhausted Retry raises MaxRetryError, which for
\* a response is swallowed (raise_on_status=False) and the response returned
urlopen(method, o, made, total) ==
    LET total_left == total - (made - 1)
        exhausted == total_left - 1 < 0
    IN  IF o.kind = "error"
        THEN IF exhausted THEN "raise" ELSE "retry"
        ELSE IF is_retry(method, o, total_left)
             THEN IF exhausted THEN "response" ELSE "retry"
             ELSE "response"

(***************************************************************************)
(* fetch_tile and the worker function fetch_coord (core.py 90-97, 144-150) *)
(***************************************************************************)
TileImage_oversized(m, x, y) ==
    [w |-> m.tile_width + 1, h |-> m.tile_height,
     px |-> [p \in Positions(m.tile_width + 1, m.tile_height) |-> <<x, y, p[1], p[2]>>]]

\* The tile the endpoint serves for (x, y): each pixel names its tile and
\* its position in the tile.
TileImage(m, x, y) ==
    [w |-> m.tile_width, h |-> m.tile_height,
     px |-> [p \in Positions(m.tile_width, m.tile_height) |-> <<x, y, p[1], p[2]>>]]

Returned(im) == [kind |-> "returned", tile |-> <<im>>, exc |-> ""]

Raised(e) == [kind |-> "raised", tile |-> <<>>, exc |-> e]

\* fetch_tile once the session's request has ended with `how` and resp.
fetch_tile(m, x, y, how, resp) ==
    IF how = "raise" THEN Raised("ConnectionError")
    ELSE IF raise_for_status(resp) THEN Raised("HTTPError")
    ELSE IF ~resp.decodable THEN Raised("UnidentifiedImageError")
    ELSE Returned(TileImage(m, x, y))

\* The outcome a future holds: a value (x, y, tile) with tile = <<>> for
\* None, or the exception the worker function raised.
FutUnset == [state |-> "unset", x |-> 0, y |-> 0, tile |-> <<>>, exc |-> ""]

FutValue(x, y, tile) == [state |-> "value", x |-> x, y |-> y, tile |-> tile, exc |-> ""]

FutException(e) == [state |-> "exception", x |-> 0, y |-> 0, tile |-> <<>>, exc |-> e]

fetch_coord_no_except(x, y, ft) ==
    IF ft.kind = "raised" THEN FutException(ft.exc) ELSE FutValue(x, y, ft.tile)

fetch_coord(x, y, ft) ==
    IF ft.kind = "raised"
    THEN IF ft.exc \in RequestException
         THEN FutValue(x, y, <<>>)
         ELSE FutException(ft.exc)
    ELSE FutValue(x, y, ft.tile)

\* max_workers=max(1, concurrency)
max_workers_plus_one(n) == IF n >= 1 THEN n + 1 ELSE 1

max_workers(n) == IF n > 1 THEN n ELSE 1

\* A worker thread ends fetch_coord: in a mutant it pastes the tile itself.
fetch_coord_pastes(c, val) ==
    /\ future' = [future EXCEPT ![c] = val]
    /\ running' = running \ {c}
    /\ writers' = IF val.tile # <<>> THEN writers \cup {"worker"} ELSE writers
    /\ canvas' = IF val.tile # <<>>
                 THEN Paste(canvas, val.tile[1], val.x * meta.tile_width,
                            val.y * meta.tile_height)
                 ELSE canvas

fetch_coord_returns(c, val) ==
    /\ future' = [future EXCEPT ![c] = val]
    /\ running' = running \ {c}
    /\ UNCHANGED <<writers, canvas>>

(***************************************************************************)
(* Spec: one StreetViewDownloader instance.  The caller either calls       *)
(* get_metadata and then download_panorama (as download_from_url does) or  *)
(* calls download_panorama with a metadata record it already holds.        *)
(***************************************************************************)
NoSession == ""

SessionToken == "session-1"

Metadata(iw, ih, tw, th) ==
    [image_width |-> iw, image_height |-> ih, tile_width |-> tw, tile_height |-> th]

NoCrop == [raised |-> FALSE, image |-> NoImage]

NoProgress == [tiles_x |-> 0, tiles_y |-> 0, total_tiles |-> 0]

CropIdle ==
    /\ image = NoImage
    /\ center_yaw = 0
    /\ fov_degrees = 0
    /\ cropped = NoCrop
    /\ clip_direction = "none"
    /\ keep_fraction = 8

ProcessIdle ==
    /\ url_yaw = <<>>
    /\ max_width = 0
    /\ image_filter = "none"
    /\ files = <<>>
    /\ applied = <<>>

SessionIdle ==
    /\ sent = {}
    /\ calls = 0
    /\ session = NoSession
    /\ tiles_left = 0

CliIdle ==
    /\ urls = <<>>
    /\ batch = FALSE
    /\ url_index = 0
    /\ success_count = 0
    /\ error_count = 0
    /\ metadata = FALSE
    /\ metadata_only = FALSE
    /\ api_key_ok = TRUE
    /\ interrupted = ""
    /\ processed = <<>>
    /\ progress = NoProgress
    /\ cpu_count = 0
    /\ env = ""
    /\ tuned = 0

ResolveIdle ==
    /\ url = <<>>
    /\ resolved = <<>>

FetchIdle ==
    /\ session_cache = NoSession
    /\ http_attempts = 0
    /\ history = <<>>
    /\ main_status = 0
    /\ grid = NoGrid
    /\ canvas = NoImage
    /\ completed_tiles = 0
    /\ submitted = 0
    /\ work_queue = <<>>
    /\ running = {}
    /\ attempts = <<>>
    /\ final_status = <<>>
    /\ future = <<>>
    /\ consumed = {}
    /\ cur = FutUnset
    /\ writers = {}

DownloadIdle ==
    /\ FetchIdle
    /\ panorama = <<>>

Init ==
    /\ pc = "idle"
    /\ \E iw \in 1 .. MaxImageWidth, ih \in 1 .. MaxImageHeight :
          meta = Metadata(iw, ih, TileWidth, TileHeight)
    /\ quality \in Qualities
    /\ concurrency \in Concurrencies
    /\ retries \in 0 .. MaxRetries
    /\ DownloadIdle
    /\ CropIdle
    /\ ProcessIdle
    /\ SessionIdle
    /\ CliIdle
    /\ ResolveIdle

inputVars == <<meta, quality, concurrency, retries>>

workerVars == <<work_queue, running, attempts, final_status, future>>

\* get_metadata (core.py 64-88) is called: it starts with create_session().
get_metadata_call ==
    /\ pc = "idle"
    /\ pc' = IF session_cache # NoSession THEN "gm_request" ELSE "gm_create_session"
    /\ http_attempts' = 0
    /\ UNCHANGED <<inputVars, session_cache, main_status, grid, canvas,
                   completed_tiles, submitted, workerVars, consumed, cur, writers,
                   panorama, cropVars, processVars, sessionVars, cliVars, resolveVars, retryVars>>

\* download_panorama (core.py 99-111) is called: zoom, then create_session().
download_panorama_call ==
    /\ pc \in {"idle", "have_metadata"}
    /\ pc' = IF session_cache # NoSession THEN "dp_plan" ELSE "dp_create_session"
    /\ http_attempts' = 0
    /\ UNCHANGED <<inputVars, session_cache, main_status, grid, canvas,
                   completed_tiles, submitted, workerVars, consumed, cur, writers,
                   panorama, cropVars, processVars, sessionVars, cliVars, resolveVars, retryVars>>

\* create_session (core.py 49-62): one request of the POST, answered by resp.
create_session(resp) ==
    /\ pc \in {"gm_create_session", "dp_create_session"}
    /\ LET made == http_attempts + 1
           how == Retry(resp, made, retries)
       IN  IF how = "retry"
           THEN /\ http_attempts' = made
                /\ UNCHANGED <<pc, session_cache, main_status>>
           ELSE /\ http_attempts' = 0
                /\ main_status' = resp.status
                /\ IF how = "raise" \/ raise_for_status(resp)
                   THEN /\ pc' = "error"
                        /\ UNCHANGED session_cache
                   ELSE /\ session_cache' = SessionToken
                        /\ pc' = IF pc = "gm_create_session"
                                 THEN "gm_request" ELSE "dp_plan"
    /\ UNCHANGED <<inputVars, grid, canvas, completed_tiles, submitted,
                   workerVars, consumed, cur, writers, panorama, cropVars, processVars, sessionVars, cliVars, resolveVars, retryVars>>

\* get_metadata (core.py 82-88): one request of the metadata GET.
get_metadata(resp) ==
    /\ pc = "gm_request"
    /\ LET made == http_attempts + 1
           how == Retry(resp, made, retries)
       IN  IF how = "retry"
           THEN /\ http_attempts' = made
                /\ UNCHANGED <<pc, main_status>>
           ELSE /\ http_attempts' = 0
                /\ main_status' = resp.status
                /\ pc' = IF how = "raise" \/ raise_for_status(resp)
                         THEN "error" ELSE "have_metadata"
    /\ UNCHANGED <<inputVars, session_cache, grid, canvas, completed_tiles,
                   submitted, workerVars, consumed, cur, writers, panorama,
                   cropVars, processVars, sessionVars, cliVars, resolveVars, retryVars>>

\* download_panorama (core.py 113-141): the grid, the canvas, the counters
\* and the coordinate list.
download_panorama_plan ==
    /\ pc = "dp_plan"
    /\ LET g == TileGrid(meta, quality)
       IN  /\ grid' = g
           /\ canvas' = NewImage(g.canvas_width, g.canvas_height)
           /\ attempts' = [c \in CoordSet(g) |-> 0]
           /\ final_status' = [c \in CoordSet(g) |-> 0]
           /\ future' = [c \in CoordSet(g) |-> FutUnset]
    /\ completed_tiles' = 0
    /\ submitted' = 0
    /\ pc' = "dp_submit"
    /\ UNCHANGED <<inputVars, session_cache, http_attempts, main_status,
                   work_queue, running, consumed, cur, writers, panorama, cropVars, processVars, sessionVars, cliVars, resolveVars, retryVars>>

\* future_map = {executor.submit(fetch_coord, c): c for c in coords}
\* (core.py 153-154): one submit, or the end of the comprehension.
executor_submit ==
    /\ pc = "dp_submit"
    /\ IF submitted < Len(coords(grid))
       THEN /\ work_queue' = Append(work_queue, coords(grid)[submitted + 1])
            /\ submitted' = submitted + 1
            /\ pc' = pc
       ELSE /\ pc' = "dp_as_completed"
            /\ UNCHANGED <<work_queue, submitted>>
    /\ UNCHANGED <<inputVars, session_cache, http_attempts, main_status, grid,
                   canvas, completed_tiles, running, attempts, final_status, future, consumed, cur, writers, panorama,
                   cropVars, processVars, sessionVars, cliVars, resolveVars, retryVars>>

\* A worker thread of the pool takes the next work item (core.py 153).
worker_start ==
    /\ work_queue # <<>>
    /\ Cardinality(running) < max_workers(concurrency)
    /\ running' = running \cup {Head(work_queue)}
    /\ work_queue' = Tail(work_queue)
    /\ UNCHANGED <<pc, inputVars, session_cache, http_attempts, main_status,
                   grid, canvas, completed_tiles, submitted, attempts, final_status, future, consumed, cur, writers, panorama,
                   cropVars, processVars, sessionVars, cliVars, resolveVars, retryVars>>

\* fetch_coord(c) on a worker (core.py 144-150, 90-97): one request of the
\* tile GET, answered by resp; the call ends unless the adapter retries.
fetch_coord_step(c, resp) ==
    /\ c \in running
    /\ LET made == attempts[c] + 1
           how == Retry(resp, made, retries)
       IN  /\ attempts' = [attempts EXCEPT ![c] = made]
           /\ IF how = "retry"
              THEN UNCHANGED <<final_status, future, running, writers, canvas>>
              ELSE /\ final_status' = [final_status EXCEPT ![c] = resp.status]
                   /\ fetch_coord_returns(c,
                        fetch_coord(c[1], c[2], fetch_tile(meta, c[1], c[2], how, resp)))
    /\ UNCHANGED <<pc, inputVars, session_cache, http_attempts, main_status,
                   grid, completed_tiles, submitted, work_queue, consumed, cur,
                   panorama, cropVars, processVars, sessionVars, cliVars, resolveVars, retryVars>>

Finished(c) == future[c].state # "unset"

\* for fut in futures.as_completed(future_map): x, y, tile = fut.result()
\* (core.py 155-157, 159): the next finished future; a None tile is only
\* counted, an exception leaves the with block.
as_completed_next(c) ==
    /\ pc = "dp_as_completed"
    /\ c \in DOMAIN future
    /\ c \notin consumed
    /\ Finished(c)
    /\ consumed' = consumed \cup {c}
    /\ IF future[c].state = "exception"
       THEN /\ pc' = "dp_shutdown"
            /\ UNCHANGED <<cur, writers, completed_tiles>>
       ELSE IF future[c].tile # <<>>
       THEN /\ pc' = "dp_paste"
            /\ cur' = future[c]
            /\ writers' = writers \cup {"main"}
            /\ UNCHANGED completed_tiles
       ELSE /\ completed_tiles' = completed_tiles + 1
            /\ UNCHANGED <<pc, cur, writers>>
    /\ UNCHANGED <<inputVars, session_cache, http_attempts, main_status, grid,
                   canvas, submitted, workerVars, panorama, cropVars, processVars, sessionVars, cliVars, resolveVars, retryVars>>

\* canvas.paste(tile, (x * tile_width, y * tile_height)); completed_tiles += 1
\* (core.py 158-159)
canvas_paste ==
    /\ pc = "dp_paste"
    /\ canvas' = Paste(canvas, cur.tile[1], cur.x * meta.tile_width,
                       cur.y * meta.tile_height)
    /\ writers' = writers \ {"main"}
    /\ completed_tiles' = completed_tiles + 1
    /\ cur' = FutUnset
    /\ pc' = "dp_as_completed"
    /\ UNCHANGED <<inputVars, session_cache, http_attempts, main_status, grid,
                   submitted, workerVars, consumed, panorama, cropVars, processVars, sessionVars, cliVars, resolveVars, retryVars>>

\* The with block ends on an exception: executor.shutdown(wait=True) lets
\* every submitted fetch finish, then the exception leaves download_panorama.
executor_shutdown ==
    /\ pc = "dp_shutdown"
    /\ work_queue = <<>>
    /\ running = {}
    /\ pc' = "error"
    /\ UNCHANGED <<inputVars, downloadVars, grid, cropVars, processVars, sessionVars, cliVars, resolveVars, retryVars>>

\* result = canvas.crop((0, 0, scaled_width, scaled_height)); return result
\* (core.py 161-174), once as_completed is exhausted.
crop_unpadded(cv, g) == cv

crop_to_panorama(cv, g) == Crop(cv, 0, 0, g.scaled_width, g.scaled_height)

download_panorama_return ==
    /\ pc = "dp_as_completed"
    /\ consumed = DOMAIN future
    /\ panorama' = <<crop_to_panorama(canvas, grid)>>
    /\ pc' = "done"
    /\ UNCHANGED <<inputVars, session_cache, http_attempts, main_status, grid,
                   canvas, completed_tiles, submitted, workerVars, consumed, cur,
                   writers, cropVars, processVars, sessionVars, cliVars, resolveVars, retryVars>>

Next ==
    \/ get_metadata_call
    \/ download_panorama_call
    \/ \E resp \in ApiResponses : create_session(resp)
    \/ \E resp \in ApiResponses : get_metadata(resp)
    \/ download_panorama_plan
    \/ executor_submit
    \/ worker_start
    \/ \E c \in running, resp \in TileResponses : fetch_coord_step(c, resp)
    \/ \E c \in DOMAIN future : as_completed_next(c)
    \/ canvas_paste
    \/ executor_shutdown
    \/ download_panorama_return

Spec == Init /\ [][Next]_vars

\* The threads are scheduled: whenever the coordinating thread or a worker
\* can take a step, one of them eventually does.  Every request is answered
\* or fails, since fetch_coord_step always ends the attempt it models.
SpecFair == Spec /\ WF_vars(Next)

(***************************************************************************)
(* SpecCancel: Spec with KeyboardInterrupt.  The signal is raised in the   *)
(* coordinating thread while it is inside the with block of                *)
(* download_panorama (core.py 153-159); the exception leaves the block     *)
(* through ThreadPoolExecutor.__exit__, which is shutdown(wait=True).      *)
(***************************************************************************)
download_interrupt ==
    /\ pc \in {"dp_submit", "dp_as_completed", "dp_paste"}
    /\ interrupted = ""
    /\ interrupted' = pc
    /\ pc' = "dp_shutdown"
    /\ writers' = {}
    /\ UNCHANGED <<inputVars, session_cache, http_attempts, main_status, grid, canvas,
                   completed_tiles, submitted, workerVars, consumed, cur, panorama,
                   cropVars, processVars, sessionVars, urls, batch, url_index,
                   success_count, error_count, metadata, metadata_only, api_key_ok,
                   processed, cliLocals, resolveVars, retryVars>>

NextCancel == Next \/ download_interrupt

SpecCancel == Init /\ [][NextCancel]_vars

(***************************************************************************)
(* SpecRetry: the attempts of one HTTP call, for every sequence of         *)
(* outcomes the service and the network may produce.                       *)
(***************************************************************************)
InitRetry ==
    /\ pc \in {"rq_post_createSession", "rq_get_metadata", "rq_get_tile"}
    /\ retries \in 0 .. MaxRetries
    /\ meta = Metadata(1, 1, 1, 1)
    /\ quality = "medium"
    /\ concurrency = 0
    /\ DownloadIdle
    /\ CropIdle
    /\ ProcessIdle
    /\ SessionIdle
    /\ CliIdle
    /\ ResolveIdle

http_method == IF pc = "rq_post_createSession" THEN "POST" ELSE "GET"

\* One attempt of self._http.post / self._http.get (core.py 54-59, 82-86, 95)
http_attempt(o) ==
    /\ pc \in {"rq_post_createSession", "rq_get_metadata", "rq_get_tile"}
    /\ LET made == http_attempts + 1
           how == urlopen(http_method, o, made, retries)
       IN  /\ http_attempts' = made
           /\ history' = Append(history, o)
           /\ main_status' = o.status
           /\ pc' = CASE how = "retry" -> pc
                      [] how = "response" -> "rq_response"
                      [] how = "raise" -> "rq_ConnectionError"
    /\ UNCHANGED <<inputVars, session_cache, grid, canvas, completed_tiles, submitted,
                   workerVars, consumed, cur, writers, panorama, cropVars, processVars,
                   sessionVars, cliVars, resolveVars>>

NextRetry == \E o \in Outcomes : http_attempt(o)

SpecRetry == InitRetry /\ [][NextRetry]_vars

(***************************************************************************)
(* SpecPlan: the grid computation alone, over more metadata records and    *)
(* an unknown quality name.                                                *)
(***************************************************************************)
InitPlan ==
    /\ pc = "plan_input"
    /\ \E iw \in 1 .. MaxPlanImage, ih \in 1 .. MaxPlanImage,
          tw \in 1 .. MaxPlanTile, th \in 1 .. MaxPlanTile :
          meta = Metadata(iw, ih, tw, th)
    /\ quality \in PlanQualities
    /\ concurrency = 0
    /\ retries = 0
    /\ DownloadIdle
    /\ CropIdle
    /\ ProcessIdle
    /\ SessionIdle
    /\ CliIdle
    /\ ResolveIdle

\* download_panorama's grid computation (core.py 107-123)
plan_grid ==
    /\ pc = "plan_input"
    /\ grid' = TileGrid(meta, quality)
    /\ pc' = "planned"
    /\ UNCHANGED <<inputVars, downloadVars, cropVars, processVars, sessionVars, cliVars, resolveVars, retryVars>>

NextPlan == plan_grid

SpecPlan == InitPlan /\ [][NextPlan]_vars

(***************************************************************************)
(* SpecEstimate: process_single_url computes the tile counts for its       *)
(* progress display (cli.py 306-314), then download_panorama plans the     *)
(* grid from the same metadata record and quality.                         *)
(***************************************************************************)
cli_zoom_map_default_medium(q) ==
    CASE q = "low" -> 3
      [] q = "medium" -> 4
      [] q = "high" -> 5
      [] OTHER -> 4

\* zoom_map = {"low": 3, "medium": 4, "high": 5}; z = zoom_map.get(quality, 5)
cli_zoom_map(q) ==
    CASE q = "low" -> 3
      [] q = "medium" -> 4
      [] q = "high" -> 5
      [] OTHER -> 5

\* cli.py 307-314
progress_tiles(m, q) ==
    LET z == cli_zoom_map(q)
        scale_factor == 2 ^ (5 - z)
        scaled_width == m.image_width \div scale_factor
        scaled_height == m.image_height \div scale_factor
        tiles_x == Ceil(scaled_width, m.tile_width)
        tiles_y == Ceil(scaled_height, m.tile_height)
    IN  [tiles_x |-> tiles_x, tiles_y |-> tiles_y, total_tiles |-> tiles_x * tiles_y]

InitEstimate ==
    /\ pc = "psu_estimate"
    /\ \E iw \in 1 .. MaxPlanImage, ih \in 1 .. MaxPlanImage,
          tw \in 1 .. MaxPlanTile, th \in 1 .. MaxPlanTile :
          meta = Metadata(iw, ih, tw, th)
    /\ quality \in PlanQualities
    /\ concurrency = 0
    /\ retries = 0
    /\ DownloadIdle
    /\ CropIdle
    /\ ProcessIdle
    /\ SessionIdle
    /\ CliIdle
    /\ ResolveIdle

\* process_single_url's tile counts (cli.py 306-314), before the download
process_single_url_estimate ==
    /\ pc = "psu_estimate"
    /\ progress' = progress_tiles(meta, quality)
    /\ pc' = "plan_input"
    /\ UNCHANGED <<inputVars, downloadVars, grid, cropVars, processVars, sessionVars,
                   urls, batch, url_index, success_count, error_count, metadata,
                   metadata_only, api_key_ok, interrupted, processed, cpu_count, env,
                   tuned, resolveVars, retryVars>>

NextEstimate == process_single_url_estimate \/ plan_grid

SpecEstimate == InitEstimate /\ [][NextEstimate]_vars

(***************************************************************************)
(* SpecTune: determine_concurrency (cli.py 45-70) for every requested      *)
(* value, environment override, core count and quality.                    *)
(***************************************************************************)
MaxCpu == 40

min(a, b) == IF a < b THEN a ELSE b

max(a, b) == IF a > b THEN a ELSE b

\* --concurrency: 0 asks for auto-tuning
Requested == {-1, 0, 1, MaxCpu}

\* STREETVIEW_DL_CONCURRENCY; "" stands for an unset or empty variable
Envs == {"", "0", "8", "33", "abc"}

\* int(env): ValueError for text that is no integer
parse_int(str) ==
    CASE str = "0" -> [raised |-> FALSE, value |-> 0]
      [] str = "8" -> [raised |-> FALSE, value |-> 8]
      [] str = "33" -> [raised |-> FALSE, value |-> 33]
      [] OTHER -> [raised |-> TRUE, value |-> 0]

tier_base_uncapped(q, cpu) ==
    IF q = "high" THEN max(4, cpu * 2)
    ELSE IF q = "medium" THEN max(3, cpu)
    ELSE max(2, max(1, cpu \div 2))

\* base, by quality (cli.py 64-69)
tier_base(q, cpu) ==
    IF q = "high" THEN min(16, max(4, cpu * 2))
    ELSE IF q = "medium" THEN min(12, max(3, cpu))
    ELSE min(8, max(2, max(1, cpu \div 2)))

determine_concurrency(q, requested, e, cores) ==
    LET val == parse_int(e)
        cpu == IF cores = 0 THEN 4 ELSE cores
    IN  IF requested # 0 /\ requested > 0 THEN requested
        ELSE IF e # "" /\ ~val.raised /\ 1 <= val.value /\ val.value <= 32
        THEN val.value
        ELSE max(1, min(32, tier_base(q, cpu)))

InitTune ==
    /\ pc = "tune_input"
    /\ quality \in PlanQualities
    /\ concurrency \in Requested
    /\ env \in Envs
    /\ cpu_count \in 0 .. MaxCpu
    /\ tuned = 0
    /\ progress = NoProgress
    /\ urls = <<>>
    /\ batch = FALSE
    /\ url_index = 0
    /\ success_count = 0
    /\ error_count = 0
    /\ metadata = FALSE
    /\ metadata_only = FALSE
    /\ api_key_ok = TRUE
    /\ interrupted = ""
    /\ processed = <<>>
    /\ meta = Metadata(1, 1, 1, 1)
    /\ retries = 0
    /\ DownloadIdle
    /\ CropIdle
    /\ ProcessIdle
    /\ SessionIdle
    /\ ResolveIdle

\* tuned_concurrency = determine_concurrency(quality, concurrency) (cli.py 318)
determine_concurrency_call ==
    /\ pc = "tune_input"
    /\ tuned' = determine_concurrency(quality, concurrency, env, cpu_count)
    /\ pc' = "tuned"
    /\ UNCHANGED <<inputVars, downloadVars, grid, cropVars, processVars, sessionVars,
                   urls, batch, url_index, success_count, error_count, metadata,
                   metadata_only, api_key_ok, interrupted, processed, progress,
                   cpu_count, env, resolveVars, retryVars>>

NextTune == determine_concurrency_call

SpecTune == InitTune /\ [][NextTune]_vars

(***************************************************************************)
(* crop_fov (utils.py 143-199).  Yaw and field of view are whole degrees;  *)
(* center_x and half_fov_pixels are kept exact as fractions over 720.      *)
(***************************************************************************)
\* int(n / d) for d > 0: Python's int() truncates toward zero
int(n, d) == IF n >= 0 THEN n \div d ELSE -((-n) \div d)

\* left = int(center_x - half_fov_pixels), with center_yaw already % 360
fov_left(width, yaw, fov) == int(2 * yaw * width - fov * width, 720)

\* right = int(center_x + half_fov_pixels)
fov_right(width, yaw, fov) == int(2 * yaw * width + fov * width, 720)

\* int(half_fov_pixels * 2)
fov_width(width, fov) == int(fov * width, 360)

CropOk(im) == [raised |-> FALSE, image |-> im]

CropValueError == [raised |-> TRUE, image |-> NoImage]

\* cropped = Image.new("RGB", (new_width, height)); cropped.paste(left_part,
\* (0, 0)); cropped.paste(right_part, (left_part.width, 0))
Concat(left_part, right_part, new_width, height) ==
    Paste(Paste(NewImage(new_width, height), left_part, 0, 0),
          right_part, left_part.w, 0)

crop_fov(im, center_yaw_arg, fov) ==
    LET width == im.w
        height == im.h
        yaw == center_yaw_arg % 360
        left == fov_left(width, yaw, fov)
        right == fov_right(width, yaw, fov)
    IN  IF fov >= 360 THEN CropOk(im)
        ELSE IF left < 0 \/ right > width
        THEN IF left < 0
             THEN IF CropRaises(0, right, width, height)
                  THEN CropValueError
                  ELSE CropOk(Concat(Crop(im, width + left, 0, width, height),
                                     Crop(im, 0, right, width, height),
                                     fov_width(width, fov), height))
             ELSE CropOk(Concat(Crop(im, left, 0, width, height),
                                Crop(im, 0, 0, right - width, height),
                                fov_width(width, fov), height))
        ELSE CropOk(Crop(im, left, 0, right, height))

(***************************************************************************)
(* crop_horizontal_section (utils.py 202-290).  left and right stay floats *)
(* in the code; here they are their exact numerators over 720.             *)
(***************************************************************************)
Clips == {"none", "left", "right"}

full_circle_never(effective_fov) == FALSE

\* if effective_fov >= 360: return image
full_circle(effective_fov) == effective_fov >= 360

\* 720 * (center_x - half_fov_pixels)
section_left(width, yaw, fov) == 2 * yaw * width - fov * width

\* 720 * (center_x + half_fov_pixels)
section_right(width, yaw, fov) == 2 * yaw * width + fov * width

int_mod_truncated(n, width) == int(n, 720) % width

\* int(v % width) for the float v = n / 720; Python's % takes the divisor's sign
int_mod(n, width) == (n % (720 * width)) \div 720

crop_horizontal_section(im, center_yaw_arg, fov, clip) ==
    LET width == im.w
        height == im.h
        yaw0 == center_yaw_arg % 360
        effective_fov == IF clip \in {"left", "right"} THEN 180 ELSE fov
        yaw == IF clip = "left" THEN (yaw0 + 180) % 360 ELSE yaw0
        left == section_left(width, yaw, effective_fov)
        right == section_right(width, yaw, effective_fov)
        target_width == int(effective_fov * width, 360)
        left_mod == int_mod(left, width)
        right_mod == int_mod(right, width)
        blank == NewImage(target_width, height)
    IN  IF full_circle(effective_fov) THEN CropOk(im)
        ELSE IF left < 0 \/ right > 720 * width
        THEN IF left < 0
             THEN LET left_part_width == width - left_mod
                      right_part_width == int(right, 720)
                      with_left == Paste(blank, Crop(im, left_mod, 0, width, height), 0, 0)
                  IN  CropOk(IF right_part_width > 0
                             THEN Paste(with_left,
                                        Crop(im, 0, 0, right_part_width, height),
                                        left_part_width, 0)
                             ELSE with_left)
             ELSE LET left_part_width == width - int(left, 720)
                      with_left == Paste(blank, Crop(im, int(left, 720), 0, width, height), 0, 0)
                  IN  CropOk(IF right_mod > 0
                             THEN Paste(with_left,
                                        Crop(im, 0, 0, right_mod, height),
                                        left_part_width, 0)
                             ELSE with_left)
        ELSE CropOk(Crop(im, int(left, 720), 0, int(right, 720), height))

(***************************************************************************)
(* crop_bottom_fraction (utils.py 293-310).  keep_fraction is a number of  *)
(* eighths, which floats hold exactly.                                     *)
(***************************************************************************)
at_least_one_unclamped(n) == n

\* max(1, n)
at_least_one(n) == IF n > 1 THEN n ELSE 1

\* max(0.0, min(1.0, float(keep_fraction))), in eighths
clamp_fraction(k) == IF k < 0 THEN 0 ELSE IF k > 8 THEN 8 ELSE k

crop_bottom_fraction(im, k) ==
    LET kept == clamp_fraction(k)
        new_height == at_least_one(int(im.h * kept, 8))
    IN  IF kept >= 8 THEN im
        ELSE Crop(im, 0, 0, im.w, new_height)

(***************************************************************************)
(* SpecCrop: the croppers applied to one equirectangular image.  Each      *)
(* pixel of the input names its own position.                              *)
(***************************************************************************)
SourceImage(w, h) == [w |-> w, h |-> h, px |-> [p \in Positions(w, h) |-> p]]

\* Whole-degree yaws and fields of view at which the code's float
\* arithmetic gives the exact quotients at every width of the model.
Yaws == {-90, 0, 10, 45, 90, 180, 270, 355, 360, 720}

Fovs == {60, 90, 100, 180, 220, 300, 359, 360, 400}

InitCrop ==
    /\ pc = "crop_input"
    /\ \E w \in 1 .. MaxCropWidth, h \in 1 .. MaxCropHeight : image = SourceImage(w, h)
    /\ center_yaw \in Yaws
    /\ fov_degrees \in Fovs
    /\ cropped = NoCrop
    /\ clip_direction \in Clips
    /\ keep_fraction = 8
    /\ meta = Metadata(1, 1, 1, 1)
    /\ quality = "medium"
    /\ concurrency = 0
    /\ retries = 0
    /\ DownloadIdle
    /\ ProcessIdle
    /\ SessionIdle
    /\ CliIdle
    /\ ResolveIdle

crop_fov_call ==
    /\ pc = "crop_input"
    /\ cropped' = crop_fov(image, center_yaw, fov_degrees)
    /\ pc' = "cropped_fov"
    /\ UNCHANGED <<inputVars, downloadVars, grid, cropInputs, processVars, sessionVars, cliVars, resolveVars, retryVars>>

crop_horizontal_section_call ==
    /\ pc = "crop_input"
    /\ cropped' = crop_horizontal_section(image, center_yaw, fov_degrees, clip_direction)
    /\ pc' = "cropped_section"
    /\ UNCHANGED <<inputVars, downloadVars, grid, cropInputs, processVars, sessionVars, cliVars, resolveVars, retryVars>>

NextCrop == crop_fov_call \/ crop_horizontal_section_call

SpecCrop == InitCrop /\ [][NextCrop]_vars

(***************************************************************************)
(* SpecBottom: crop_bottom_fraction applied to taller images, for keep     *)
(* fractions from below 0 to above 1.                                      *)
(***************************************************************************)
MaxBottomWidth == 2

MaxBottomHeight == 8

KeepEighths == -2 .. 10

InitBottom ==
    /\ pc = "bottom_input"
    /\ \E w \in 1 .. MaxBottomWidth, h \in 1 .. MaxBottomHeight : image = SourceImage(w, h)
    /\ keep_fraction \in KeepEighths
    /\ center_yaw = 0
    /\ fov_degrees = 0
    /\ clip_direction = "none"
    /\ cropped = NoCrop
    /\ meta = Metadata(1, 1, 1, 1)
    /\ quality = "medium"
    /\ concurrency = 0
    /\ retries = 0
    /\ DownloadIdle
    /\ ProcessIdle
    /\ SessionIdle
    /\ CliIdle
    /\ ResolveIdle

crop_bottom_fraction_call ==
    /\ pc = "bottom_input"
    /\ cropped' = CropOk(crop_bottom_fraction(image, keep_fraction))
    /\ pc' = "cropped_bottom"
    /\ UNCHANGED <<inputVars, downloadVars, grid, cropInputs, processVars, sessionVars, cliVars, resolveVars, retryVars>>

NextBottom == crop_bottom_fraction_call

SpecBottom == InitBottom /\ [][NextBottom]_vars

(***************************************************************************)
(* SpecProcess: the image processing of process_single_url (cli.py         *)
(* 326-401) on a downloaded panorama: field of view, clip, resize, filter, *)
(* bottom crop, save.  brightness, contrast and saturation stay at 1.0.    *)
(***************************************************************************)
MaxResize == 4

NoYaw == <<>>

UrlYaws == {NoYaw} \cup {<<y>> : y \in {0, 45, 90, 236, 270, 355}}

\* --fov: IntRange(60, 360), 0 when not given
ProcessFovs == {0, 60, 180, 220, 360}

\* --max-width, 0 when not given
MaxWidths == {0, MaxResize}

Filters == {"none", "bw"}

\* --crop-bottom in eighths: 0.0, 0.75 and the default 1.0
CropBottoms == {0, 6, 8}

\* The clip of process_single_url (cli.py 337-363); center_x is kept exact
\* as a numerator over 360.
cli_clip(im, yaw, clip) ==
    LET width == im.w
        height == im.h
        center_x == (yaw % 360) * width
        half_width == width \div 4
        left == IF clip = "right"
                THEN int(center_x - 360 * half_width, 360)
                ELSE int(center_x + 360 * half_width, 360)
        right == IF clip = "right"
                 THEN int(center_x + 360 * half_width, 360)
                 ELSE int(center_x + 3 * 360 * half_width, 360)
        left_mod == left % width
        right_mod == right % width
    IN  IF left < 0 \/ right > width
        THEN IF left_mod < right_mod
             THEN Crop(im, left_mod, 0, right_mod, height)
             ELSE Concat(Crop(im, left_mod, 0, width, height),
                         Crop(im, 0, 0, right_mod, height),
                         half_width * 2, height)
        ELSE Crop(im, left, 0, right, height)

\* int(image.height * (max_width / image.width))
resize_height(im, mw) == (im.h * mw) \div im.w

\* image.resize((max_width, new_height), LANCZOS): every pixel is resampled
resize(im, mw) ==
    [w |-> mw, h |-> resize_height(im, mw),
     px |-> [q \in Positions(mw, resize_height(im, mw)) |-> <<"LANCZOS">>]]

\* processor.apply_filter and adjust_image: same size, every pixel mapped
apply_filter(im, f) ==
    IF f = "none" THEN im
    ELSE [im EXCEPT !.px = [q \in DOMAIN im.px |-> <<f, im.px[q]>>]]

InitProcess ==
    /\ pc = "ps_fov"
    /\ \E w \in 1 .. MaxCropWidth, h \in 1 .. MaxCropHeight :
          /\ panorama = <<SourceImage(w, h)>>
          /\ image = SourceImage(w, h)
    /\ url_yaw \in UrlYaws
    /\ fov_degrees \in ProcessFovs
    /\ clip_direction \in Clips
    /\ max_width \in MaxWidths
    /\ image_filter \in Filters
    /\ keep_fraction \in CropBottoms
    /\ files = <<>>
    /\ applied = <<>>
    /\ center_yaw = 0
    /\ cropped = NoCrop
    /\ meta = Metadata(1, 1, 1, 1)
    /\ quality = "medium"
    /\ concurrency = 0
    /\ retries = 0
    /\ FetchIdle
    /\ SessionIdle
    /\ CliIdle
    /\ ResolveIdle

processInputs == <<url_yaw, fov_degrees, clip_direction, max_width, image_filter,
                   keep_fraction, center_yaw, cropped>>

processFrame == <<inputVars, downloadVars, grid, processInputs>>

\* cli.py 330-334
process_fov ==
    /\ pc = "ps_fov"
    /\ IF fov_degrees # 0 /\ fov_degrees < 360 /\ url_yaw # NoYaw
       THEN LET out == crop_fov(image, url_yaw[1], fov_degrees)
            IN  /\ applied' = Append(applied, "crop_fov")
                /\ IF out.raised
                   THEN pc' = "ps_error" /\ image' = image
                   ELSE pc' = "ps_clip" /\ image' = out.image
       ELSE pc' = "ps_clip" /\ image' = image /\ applied' = applied
    /\ UNCHANGED <<processFrame, files, sessionVars, cliVars, resolveVars, retryVars>>

\* cli.py 336-365
process_clip ==
    /\ pc = "ps_clip"
    /\ IF clip_direction \in {"left", "right"} /\ url_yaw # NoYaw
       THEN /\ image' = cli_clip(image, url_yaw[1], clip_direction)
            /\ applied' = Append(applied, "clip")
       ELSE /\ image' = image
            /\ applied' = applied
    /\ pc' = "ps_resize"
    /\ UNCHANGED <<processFrame, files, sessionVars, cliVars, resolveVars, retryVars>>

\* cli.py 367-372; Image.resize raises ValueError for a size below 1
process_resize ==
    /\ pc = "ps_resize"
    /\ IF max_width # 0 /\ image.w > max_width
       THEN /\ applied' = Append(applied, "resize")
            /\ IF resize_height(image, max_width) < 1
               THEN pc' = "ps_error" /\ image' = image
               ELSE pc' = "ps_filter" /\ image' = resize(image, max_width)
       ELSE pc' = "ps_filter" /\ image' = image /\ applied' = applied
    /\ UNCHANGED <<processFrame, files, sessionVars, cliVars, resolveVars, retryVars>>

\* cli.py 374-376
process_filter ==
    /\ pc = "ps_filter"
    /\ image' = apply_filter(image, image_filter)
    /\ applied' = IF image_filter # "none"
                  THEN applied \o <<"apply_filter", "adjust_image">>
                  ELSE applied
    /\ pc' = "ps_bottom"
    /\ UNCHANGED <<processFrame, files, sessionVars, cliVars, resolveVars, retryVars>>

\* cli.py 378-382
process_crop_bottom ==
    /\ pc = "ps_bottom"
    /\ IF 0 <= keep_fraction /\ keep_fraction < 8
       THEN /\ image' = crop_bottom_fraction(image, keep_fraction)
            /\ applied' = Append(applied, "crop_bottom_fraction")
       ELSE /\ image' = image
            /\ applied' = applied
    /\ pc' = "ps_save"
    /\ UNCHANGED <<processFrame, files, sessionVars, cliVars, resolveVars, retryVars>>

\* cli.py 384-401: image.save(output, format="JPEG", ...), then the XMP
\* segment; the JPEG encoder raises ValueError for an empty image
process_save ==
    /\ pc = "ps_save"
    /\ IF image.w = 0 \/ image.h = 0
       THEN /\ pc' = "ps_error"
            /\ files' = files
            /\ applied' = Append(applied, "save")
       ELSE /\ pc' = "ps_saved"
            /\ files' = files @@ ("output" :> image)
            /\ applied' = applied \o <<"save", "write_xmp_metadata">>
    /\ UNCHANGED <<processFrame, image, sessionVars, cliVars, resolveVars, retryVars>>

NextProcess ==
    \/ process_fov
    \/ process_clip
    \/ process_resize
    \/ process_filter
    \/ process_crop_bottom
    \/ process_save

SpecProcess == InitProcess /\ [][NextProcess]_vars

(***************************************************************************)
(* SpecSession: one StreetViewDownloader instance on which get_metadata    *)
(* and download_panorama are called in any order, each call after the      *)
(* previous one returned or raised (core.py 49-111).  Every request the    *)
(* instance sends is added to sent.  The tile fetches of a download all    *)
(* carry the download's local session and are taken one at a time.         *)
(***************************************************************************)
MaxCalls == 3

MaxSessionTiles == 2

\* The tokens the service hands out, one per successful createSession.
SessionTokens == <<"session-1", "session-2", "session-3", "session-4">>

\* A request as sent: its endpoint, the session parameter it carries, and
\* the token its answer issued (NoSession unless a createSession succeeded).
Request(endpoint, token, issued) ==
    [endpoint |-> endpoint, session |-> token, issued |-> issued]

\* The session creations that succeeded; their tokens differ.
SessionsCreated ==
    {r \in sent : r.endpoint = "createSession" /\ r.issued # NoSession}

\* response.json()["session"]: the service's next token
IssuedToken ==
    LET n == Cardinality(SessionsCreated) + 1
    IN  SessionTokens[IF n <= Len(SessionTokens) THEN n ELSE Len(SessionTokens)]

session_cached_never(cache) == FALSE

\* if self._session_cache: return self._session_cache
session_cached(cache) == cache # NoSession

InitSession ==
    /\ pc = "ss_idle"
    /\ retries \in 0 .. MaxRetries
    /\ meta = Metadata(1, 1, 1, 1)
    /\ quality = "medium"
    /\ concurrency = 0
    /\ DownloadIdle
    /\ CropIdle
    /\ ProcessIdle
    /\ SessionIdle
    /\ CliIdle
    /\ ResolveIdle

sessionFrame == <<meta, quality, concurrency, retries, main_status, grid, canvas,
                  completed_tiles, submitted, workerVars, consumed, cur, writers,
                  panorama, cropVars, processVars, cliVars, resolveVars, retryVars>>

\* get_metadata is called: session = self.create_session() (core.py 72, 51-52)
session_get_metadata_call ==
    /\ pc = "ss_idle"
    /\ calls < MaxCalls
    /\ calls' = calls + 1
    /\ http_attempts' = 0
    /\ IF session_cached(session_cache)
       THEN pc' = "ss_gm_request" /\ session' = session_cache
       ELSE pc' = "ss_gm_create" /\ session' = NoSession
    /\ UNCHANGED <<sessionFrame, session_cache, sent, tiles_left>>

\* download_panorama is called: session = self.create_session() (core.py 111, 51-52)
session_download_panorama_call ==
    /\ pc = "ss_idle"
    /\ calls < MaxCalls
    /\ calls' = calls + 1
    /\ http_attempts' = 0
    /\ tiles_left' = MaxSessionTiles
    /\ IF session_cached(session_cache)
       THEN pc' = "ss_dp_tiles" /\ session' = session_cache
       ELSE pc' = "ss_dp_create" /\ session' = NoSession
    /\ UNCHANGED <<sessionFrame, session_cache, sent>>

\* create_session (core.py 54-62): one request of the POST, answered by resp
session_create_session(resp) ==
    /\ pc \in {"ss_gm_create", "ss_dp_create"}
    /\ LET made == http_attempts + 1
           how == Retry(resp, made, retries)
           issued == IF resp.status = 200 THEN IssuedToken ELSE NoSession
       IN  /\ sent' = sent \cup {Request("createSession", NoSession, issued)}
           /\ IF how = "retry"
              THEN /\ http_attempts' = made
                   /\ UNCHANGED <<pc, session_cache, session, tiles_left>>
              ELSE /\ http_attempts' = 0
                   /\ IF how = "raise" \/ raise_for_status(resp)
                      THEN /\ pc' = "ss_idle"
                           /\ tiles_left' = 0
                           /\ UNCHANGED <<session_cache, session>>
                      ELSE /\ session_cache' = issued
                           /\ session' = issued
                           /\ pc' = IF pc = "ss_gm_create"
                                    THEN "ss_gm_request" ELSE "ss_dp_tiles"
                           /\ UNCHANGED tiles_left
    /\ UNCHANGED <<sessionFrame, calls>>

\* get_metadata (core.py 73-88): one request of the metadata GET
session_get_metadata(resp) ==
    /\ pc = "ss_gm_request"
    /\ sent' = sent \cup {Request("metadata", session, NoSession)}
    /\ LET made == http_attempts + 1
           how == Retry(resp, made, retries)
       IN  IF how = "retry"
           THEN http_attempts' = made /\ pc' = pc
           ELSE http_attempts' = 0 /\ pc' = "ss_idle"
    /\ UNCHANGED <<sessionFrame, session_cache, calls, session, tiles_left>>

\* fetch_tile (core.py 92-97) for the next coordinate: one request of the
\* tile GET.  A request error leaves the tile missing, an undecodable body
\* ends the download (core.py 146-150, 156).
session_fetch_tile(resp) ==
    /\ pc = "ss_dp_tiles"
    /\ tiles_left > 0
    /\ sent' = sent \cup {Request("tile", session, NoSession)}
    /\ LET made == http_attempts + 1
           how == Retry(resp, made, retries)
       IN  IF how = "retry"
           THEN /\ http_attempts' = made
                /\ UNCHANGED <<pc, tiles_left>>
           ELSE /\ http_attempts' = 0
                /\ IF how = "response" /\ ~raise_for_status(resp) /\ ~resp.decodable
                   THEN pc' = "ss_idle" /\ tiles_left' = 0
                   ELSE pc' = pc /\ tiles_left' = tiles_left - 1
    /\ UNCHANGED <<sessionFrame, session_cache, calls, session>>

\* download_panorama returns the image (core.py 172-174)
session_download_panorama_return ==
    /\ pc = "ss_dp_tiles"
    /\ tiles_left = 0
    /\ pc' = "ss_idle"
    /\ UNCHANGED <<sessionFrame, session_cache, http_attempts, sent, calls, session,
                   tiles_left>>

NextSession ==
    \/ session_get_metadata_call
    \/ session_download_panorama_call
    \/ \E resp \in ApiResponses : session_create_session(resp)
    \/ \E resp \in ApiResponses : session_get_metadata(resp)
    \/ \E resp \in TileResponses : session_fetch_tile(resp)
    \/ session_download_panorama_return

SpecSession == InitSession /\ [][NextSession]_vars

(***************************************************************************)
(* SpecCli: main, process_batch and process_single_url (cli.py 150-219,    *)
(* 247-401, 476-532) as control flow: which stage runs, what it raises,    *)
(* which files exist.  A URL is one of three kinds; a stage that talks to  *)
(* the network or the disk may fail; KeyboardInterrupt may be raised in    *)
(* the main thread at any stage.  Output names are taken to differ from    *)
(* URL to URL.                                                             *)
(***************************************************************************)
MaxUrls == 3

MaxCliTiles == 2

\* "invalid" fails validate_maps_url, "no_id" has no panorama id
UrlKinds == {"good", "no_id", "invalid"}

UrlLists == UNION {[1 .. n -> UrlKinds] : n \in 1 .. MaxUrls}

is_Exception_click_only(e) == e = "ClickException"

\* except Exception: every exception class but the BaseException-only ones
is_Exception(e) == e # "KeyboardInterrupt"

early_files_touch_output(md, mdo) == IF md \/ mdo THEN {"metadata", "image"} ELSE {"image"}

\* The files process_single_url writes before the download (cli.py 296-301)
early_files(md, mdo) == IF md \/ mdo THEN {"metadata"} ELSE {}

InitCli ==
    /\ pc = "main"
    /\ batch \in BOOLEAN
    /\ urls \in UrlLists
    /\ ~batch => Len(urls) = 1
    /\ metadata \in BOOLEAN
    /\ metadata_only \in BOOLEAN
    /\ api_key_ok \in BOOLEAN
    /\ url_index = 0
    /\ success_count = 0
    /\ error_count = 0
    /\ interrupted = ""
    /\ processed = <<>>
    /\ progress = NoProgress
    /\ cpu_count = 0
    /\ env = ""
    /\ tuned = 0
    /\ meta = Metadata(1, 1, 1, 1)
    /\ quality = "medium"
    /\ concurrency = 0
    /\ retries = 0
    /\ DownloadIdle
    /\ CropIdle
    /\ ProcessIdle
    /\ SessionIdle
    /\ ResolveIdle

cliInputs == <<urls, batch, metadata, metadata_only, api_key_ok>>

cliFrame == <<inputVars, session_cache, http_attempts, main_status, grid, canvas,
              submitted, workerVars, consumed, cur, writers, panorama, cropVars,
              url_yaw, max_width, image_filter, applied, sessionVars, cliInputs,
              cliLocals,
              resolveVars, retryVars>>

\* main (cli.py 150-210): batch mode or a single URL
main ==
    /\ pc = "main"
    /\ IF batch
       THEN /\ pc' = "batch_loop"
            /\ UNCHANGED <<url_index, processed>>
       ELSE /\ pc' = "psu_validate"
            /\ url_index' = 1
            /\ processed' = <<1>>
    /\ UNCHANGED <<cliFrame, files, completed_tiles, success_count, error_count,
                   interrupted>>

\* for i, url in enumerate(urls, 1): ... process_single_url(url=url, ...)
\* (cli.py 479-518), or the summary after the last URL (cli.py 528-532)
process_batch_next ==
    /\ pc = "batch_loop"
    /\ IF url_index < Len(urls)
       THEN /\ url_index' = url_index + 1
            /\ processed' = Append(processed, url_index + 1)
            /\ pc' = "psu_validate"
       ELSE /\ pc' = "batch_done"
            /\ UNCHANGED <<url_index, processed>>
    /\ UNCHANGED <<cliFrame, files, completed_tiles, success_count, error_count,
                   interrupted>>

\* process_single_url returns: success_count += 1 in the loop (cli.py 519),
\* the end of main for a single URL
Return ==
    /\ pc' = IF batch THEN "batch_loop" ELSE "exit_0"
    /\ success_count' = IF batch THEN success_count + 1 ELSE success_count
    /\ UNCHANGED <<error_count, interrupted>>

\* process_single_url raises e at stage pc: the except clause of the loop
\* (cli.py 521-526) or of main (cli.py 211-219)
Raise(e) ==
    /\ interrupted' = IF e = "KeyboardInterrupt" THEN pc ELSE interrupted
    /\ IF batch
       THEN IF is_Exception(e)
            THEN pc' = "batch_loop" /\ error_count' = error_count + 1
            ELSE pc' = "batch_aborted" /\ error_count' = error_count
       ELSE pc' = "exit_1" /\ error_count' = error_count
    /\ UNCHANGED success_count

Stages == {"psu_validate", "psu_api_key", "psu_extract", "psu_get_metadata",
           "psu_write_metadata", "psu_download", "psu_process", "psu_save"}

\* cli.py 252-253
psu_validate ==
    /\ pc = "psu_validate"
    /\ IF urls[url_index] = "invalid"
       THEN Raise("ClickException")
       ELSE pc' = "psu_api_key" /\ UNCHANGED <<success_count, error_count, interrupted>>
    /\ UNCHANGED <<cliFrame, files, completed_tiles, url_index, processed>>

\* cli.py 256-264
psu_api_key ==
    /\ pc = "psu_api_key"
    /\ IF ~api_key_ok
       THEN Raise("ClickException")
       ELSE pc' = "psu_extract" /\ UNCHANGED <<success_count, error_count, interrupted>>
    /\ UNCHANGED <<cliFrame, files, completed_tiles, url_index, processed>>

\* cli.py 267-269
psu_extract ==
    /\ pc = "psu_extract"
    /\ IF urls[url_index] = "no_id"
       THEN Raise("ClickException")
       ELSE pc' = "psu_get_metadata" /\ UNCHANGED <<success_count, error_count, interrupted>>
    /\ UNCHANGED <<cliFrame, files, completed_tiles, url_index, processed>>

\* cli.py 279-282: downloader.get_metadata returns or raises
psu_get_metadata(ok) ==
    /\ pc = "psu_get_metadata"
    /\ IF ~ok
       THEN Raise("HTTPError")
       ELSE pc' = "psu_write_metadata" /\ UNCHANGED <<success_count, error_count, interrupted>>
    /\ UNCHANGED <<cliFrame, files, completed_tiles, url_index, processed>>

\* cli.py 296-304: the metadata file, and the return of --metadata-only
psu_write_metadata ==
    /\ pc = "psu_write_metadata"
    /\ files' = files @@ [k \in {url_index} \X early_files(metadata, metadata_only) |-> "json"]
    /\ completed_tiles' = 0
    /\ IF metadata_only
       THEN Return
       ELSE pc' = "psu_download" /\ UNCHANGED <<success_count, error_count, interrupted>>
    /\ UNCHANGED <<cliFrame, url_index, processed>>

\* cli.py 317-324, core.py 155-169: one more tile is on the canvas, or the
\* download raises an error that is no request error
psu_download_tile(ok) ==
    /\ pc = "psu_download"
    /\ completed_tiles < MaxCliTiles
    /\ IF ~ok
       THEN Raise("UnidentifiedImageError") /\ UNCHANGED completed_tiles
       ELSE /\ completed_tiles' = completed_tiles + 1
            /\ UNCHANGED <<pc, success_count, error_count, interrupted>>
    /\ UNCHANGED <<cliFrame, files, url_index, processed>>

\* download_panorama returns the stitched image
psu_download_return ==
    /\ pc = "psu_download"
    /\ completed_tiles = MaxCliTiles
    /\ pc' = "psu_process"
    /\ UNCHANGED <<cliFrame, files, completed_tiles, url_index, processed,
                   success_count, error_count, interrupted>>

\* cli.py 326-382: the croppers and filters return or raise (ValueError)
psu_process(ok) ==
    /\ pc = "psu_process"
    /\ IF ~ok
       THEN Raise("ValueError")
       ELSE pc' = "psu_save" /\ UNCHANGED <<success_count, error_count, interrupted>>
    /\ UNCHANGED <<cliFrame, files, completed_tiles, url_index, processed>>

\* cli.py 384-426: image.save and the XMP segment, or OSError
psu_save(ok) ==
    /\ pc = "psu_save"
    /\ IF ~ok
       THEN Raise("OSError") /\ UNCHANGED files
       ELSE Return /\ files' = files @@ (<<url_index, "image">> :> completed_tiles)
    /\ UNCHANGED <<cliFrame, completed_tiles, url_index, processed>>

\* Ctrl-C: KeyboardInterrupt is raised in the main thread, whatever the
\* stage; during the download the executor is shut down first (core.py 153)
keyboard_interrupt ==
    /\ pc \in Stages
    /\ Raise("KeyboardInterrupt")
    /\ UNCHANGED <<cliFrame, files, completed_tiles, url_index, processed>>

NextCli ==
    \/ main
    \/ process_batch_next
    \/ psu_validate
    \/ psu_api_key
    \/ psu_extract
    \/ \E ok \in BOOLEAN : psu_get_metadata(ok)
    \/ psu_write_metadata
    \/ \E ok \in BOOLEAN : psu_download_tile(ok)
    \/ psu_download_return
    \/ \E ok \in BOOLEAN : psu_process(ok)
    \/ \E ok \in BOOLEAN : psu_save(ok)
    \/ keyboard_interrupt

SpecCli == InitCli /\ [][NextCli]_vars

(***************************************************************************)
(* SpecResolve: extract_from_maps_url (metadata.py 56-97) and its callers. *)
(* A URL is given by the parts the three regular expressions look for in   *)
(* path + "?" + query: the query string of an embedded, percent-encoded    *)
(* streetviewpixels thumbnail URL (a sequence of key/value pairs, as       *)
(* parse_qs sees them after %26 and %3D are decoded), the !3m5!1s token,   *)
(* and a direct panoid= parameter.  A part that is absent is <<>>.         *)
(***************************************************************************)
MaxParams == 3

Absent == <<>>

\* Key/value pairs of a thumbnail query string
ThumbnailParams ==
    {<<"panoid", "THUMB">>, <<"yaw", "123.45">>, <<"yaw", "abc">>,
     <<"pitch", "-1.5">>, <<"pitch", "abc">>, <<"cb_client", "maps_sv">>}

ThumbnailQueries == UNION {[1 .. n -> ThumbnailParams] : n \in 1 .. MaxParams}

Urls ==
    [thumbnail : {Absent} \cup {<<q>> : q \in ThumbnailQueries},
     token : {Absent, <<"TOKEN">>},
     direct : {Absent, <<"DIRECT">>}]

\* float(s), in hundredths; ValueError for text that is no number
float(str) ==
    CASE str = "123.45" -> [raised |-> FALSE, value |-> 12345]
      [] str = "-1.5" -> [raised |-> FALSE, value |-> -150]
      [] str = "0" -> [raised |-> FALSE, value |-> 0]
      [] OTHER -> [raised |-> TRUE, value |-> 0]

\* qs_params.get(key, [default])[0]: the first value of the key
qs_get(qs, key, default) ==
    LET at == {i \in DOMAIN qs : qs[i][1] = key}
    IN  IF at = {} THEN default
        ELSE <<qs[CHOOSE i \in at : \A j \in at : i <= j][2]>>

Extracted(pano_id, yaw, pitch) == [pano_id |-> pano_id, yaw |-> yaw, pitch |-> pitch]

\* The thumbnail branch (metadata.py 69-85)
from_thumbnail(qs) ==
    LET pano_id == qs_get(qs, "panoid", Absent)
        yaw_str == qs_get(qs, "yaw", <<"0">>)[1]
        pitch_str == qs_get(qs, "pitch", <<"0">>)[1]
    IN  IF float(yaw_str).raised \/ float(pitch_str).raised
        THEN Extracted(pano_id, Absent, Absent)
        ELSE Extracted(pano_id, <<float(yaw_str).value>>, <<float(pitch_str).value>>)

extract_with_fallback(u) ==
    IF u.thumbnail # Absent /\ from_thumbnail(u.thumbnail[1]).pano_id # Absent
    THEN from_thumbnail(u.thumbnail[1])
    ELSE IF u.token # Absent THEN Extracted(u.token, Absent, Absent)
    ELSE IF u.direct # Absent THEN Extracted(u.direct, Absent, Absent)
    ELSE IF u.thumbnail # Absent THEN from_thumbnail(u.thumbnail[1])
    ELSE Extracted(Absent, Absent, Absent)

extract_direct_first(u) ==
    IF u.thumbnail # Absent THEN from_thumbnail(u.thumbnail[1])
    ELSE IF u.direct # Absent THEN Extracted(u.direct, Absent, Absent)
    ELSE IF u.token # Absent THEN Extracted(u.token, Absent, Absent)
    ELSE Extracted(Absent, Absent, Absent)

extract_from_maps_url(u) ==
    IF u.thumbnail # Absent THEN from_thumbnail(u.thumbnail[1])
    ELSE IF u.token # Absent THEN Extracted(u.token, Absent, Absent)
    ELSE IF u.direct # Absent THEN Extracted(u.direct, Absent, Absent)
    ELSE Extracted(Absent, Absent, Absent)

InitResolve ==
    /\ pc = "url_input"
    /\ url \in Urls
    /\ resolved = <<>>
    /\ meta = Metadata(1, 1, 1, 1)
    /\ quality = "medium"
    /\ concurrency = 0
    /\ retries = 0
    /\ DownloadIdle
    /\ CropIdle
    /\ ProcessIdle
    /\ SessionIdle
    /\ CliIdle

resolveFrame == <<inputVars, downloadVars, grid, cropVars, processVars, sessionVars,
                  cliVars, url, retryVars>>

\* extract_from_maps_url(url) called on its own
extract_from_maps_url_call ==
    /\ pc = "url_input"
    /\ resolved' = extract_from_maps_url(url)
    /\ pc' = "extracted"
    /\ UNCHANGED resolveFrame

\* download_from_url (core.py 185-189)
download_from_url ==
    /\ pc = "url_input"
    /\ resolved' = extract_from_maps_url(url)
    /\ pc' = IF resolved'.pano_id = Absent THEN "dfu_ValueError" ELSE "dfu_get_metadata"
    /\ UNCHANGED resolveFrame

\* process_single_url on a URL that validate_maps_url accepts (cli.py 267-280)
process_single_url_extract ==
    /\ pc = "url_input"
    /\ resolved' = extract_from_maps_url(url)
    /\ pc' = IF resolved'.pano_id = Absent THEN "psu_ClickException" ELSE "psu_get_metadata"
    /\ UNCHANGED resolveFrame

NextResolve ==
    \/ extract_from_maps_url_call
    \/ download_from_url
    \/ process_single_url_extract

SpecResolve == InitResolve /\ [][NextResolve]_vars

(***************************************************************************)
(* What the claims refer to.                                               *)
(***************************************************************************)
\* The scale-down factor of a quality tier: 2^(5 - zoom), zoom 3, 4, 5.
TierScale == IF quality = "low" THEN 4 ELSE IF quality = "medium" THEN 2 ELSE 1

ScaledWidth == meta.image_width \div TierScale

ScaledHeight == meta.image_height \div TierScale

NoneResult(c) == FutValue(c[1], c[2], <<>>)

\* The planned coordinate whose tile region holds position p.
CoordOf(p) == <<p[1] \div meta.tile_width, p[2] \div meta.tile_height>>

\* The coordinates whose tile is on the canvas, pixel for pixel.
PlacedTiles ==
    {c \in CoordSet(grid) :
        \A q \in Positions(meta.tile_width, meta.tile_height) :
            canvas.px[<<c[1] * meta.tile_width + q[1], c[2] * meta.tile_height + q[2]>>]
                = <<c[1], c[2], q[1], q[2]>>}

\* C1: a tile whose fetch ended in a request error (HTTP error status, or
\* retries exhausted on timeouts) is never an exception of its future but a
\* None result; the download leaves the loop by an exception only for an
\* error that is no request error; and the image download_panorama returns
\* has size scaledWidth x scaledHeight, is background wherever the
\* coordinate's tile is missing, and holds every fetched tile at offset
\* (column * tileWidth, row * tileHeight).
C1_MissingTileTolerance ==
    /\ \A c \in DOMAIN future :
          /\ future[c].state = "exception" => future[c].exc \notin RequestException
          /\ (Finished(c) /\ (final_status[c] >= 400 \/ final_status[c] = 0))
                => future[c] = NoneResult(c)
    /\ pc = "dp_shutdown" =>
          \E c \in consumed : future[c].state = "exception"
    /\ pc = "done" =>
          LET im == panorama[1]
          IN  /\ im.w = ScaledWidth
              /\ im.h = ScaledHeight
              /\ \A p \in DOMAIN im.px :
                    LET c == CoordOf(p)
                    IN  IF future[c].tile = <<>>
                        THEN im.px[p] = Background
                        ELSE im.px[p] = <<c[1], c[2],
                                          p[1] - c[1] * meta.tile_width,
                                          p[2] - c[2] * meta.tile_height>>

\* C1 witness: a finished download in which one tile exhausted its retries
\* on 503 and another tile was fetched.
C1_Witness ==
    /\ pc = "done"
    /\ retries >= 1
    /\ \E c, d \in DOMAIN future :
          /\ future[c].tile = <<>>
          /\ final_status[c] = 503
          /\ attempts[c] = retries + 1
          /\ future[d].tile # <<>>
          /\ \E p \in DOMAIN panorama[1].px : CoordOf(p) = c
          /\ \E p \in DOMAIN panorama[1].px : CoordOf(p) = d

\* C2: at most max(1, concurrency) tile fetches are in flight at any time.
C2_ConcurrencyBound ==
    Cardinality(running) <= (IF concurrency >= 1 THEN concurrency ELSE 1)

\* C2 witness: concurrency >= 2 fetches in flight while another coordinate
\* waits in the queue.
C2_Witness ==
    /\ concurrency >= 2
    /\ Cardinality(running) = concurrency
    /\ work_queue # <<>>

\* C3: only the coordinating thread is ever inside canvas.paste, only while
\* it is at its paste step, and the canvas changes only by the coordinator
\* creating it or completing that paste; worker steps leave it unchanged.
C3_WriterInv ==
    /\ writers \subseteq {"main"}
    /\ ("main" \in writers) <=> (pc = "dp_paste")

C3_CanvasStep ==
    canvas' # canvas =>
        \/ pc = "dp_plan"
        \/ /\ pc = "dp_paste"
           /\ writers = {"main"}
           /\ running' = running
           /\ future' = future

C3_SingleWriter == []C3_WriterInv /\ [][C3_CanvasStep]_vars

\* C3 witness: the coordinator is pasting while fetches are in flight.
C3_Witness ==
    /\ pc = "dp_paste"
    /\ writers = {"main"}
    /\ Cardinality(running) >= 2

\* C4: no coordinate is requested more than retries + 1 times, and a fetch
\* that ended on a 503 response was requested exactly retries + 1 times and
\* is a None result (a missing tile, not an exception).
C4_RetryCeiling ==
    \A c \in DOMAIN attempts :
        /\ attempts[c] <= retries + 1
        /\ (Finished(c) /\ final_status[c] = 503) =>
              /\ attempts[c] = retries + 1
              /\ future[c] = NoneResult(c)

\* C4 witness: with retries >= 1, a fetch ended on 503 and the download
\* returned.
C4_Witness ==
    /\ retries >= 1
    /\ pc = "done"
    /\ \E c \in DOMAIN attempts : final_status[c] = 503 /\ attempts[c] = retries + 1

\* C5 (as claimed): once any request of the download - createSession,
\* metadata or tile - has been answered 403, the request has ended and the
\* download does not complete successfully.
C5_PermanentErrorFatal ==
    (\/ main_status = 403
     \/ \E c \in DOMAIN future : final_status[c] = 403)
        => /\ pc # "done"
           /\ \A c \in DOMAIN future : final_status[c] = 403 => Finished(c)

\* C6 (as claimed): when download_panorama returns, the count it reports as
\* downloaded successfully is the number of tiles fetched and placed.
C6_ReportedCountIsPlaced ==
    pc = "done" => completed_tiles = Cardinality(PlacedTiles)

\* C7: the planned grid is the tight ceiling of the scaled size, for every
\* positive metadata record and every quality.
C7_TightCeiling ==
    pc = "planned" =>
        /\ grid.scale_factor = TierScale
        /\ grid.scaled_width = ScaledWidth
        /\ grid.scaled_height = ScaledHeight
        /\ grid.tiles_x * meta.tile_width >= ScaledWidth
        /\ ScaledWidth > (grid.tiles_x - 1) * meta.tile_width
        /\ grid.tiles_y * meta.tile_height >= ScaledHeight
        /\ ScaledHeight > (grid.tiles_y - 1) * meta.tile_height

\* C7 witness: a low-quality plan of several columns whose last column is
\* padding in part, and whose rows fit exactly.
C7_Witness ==
    /\ pc = "planned"
    /\ quality = "low"
    /\ grid.tiles_x >= 2
    /\ grid.tiles_x * meta.tile_width > ScaledWidth
    /\ grid.tiles_y * meta.tile_height = ScaledHeight
    /\ grid.tiles_y >= 1

\* C8: the image download_panorama returns has exactly the scaled size,
\* whatever the padding of the canvas and whichever tiles failed.
C8_CropExact ==
    pc = "done" =>
        /\ panorama[1].w = ScaledWidth
        /\ panorama[1].h = ScaledHeight
        /\ DOMAIN panorama[1].px = Positions(ScaledWidth, ScaledHeight)

\* C8 witness: a returned image smaller than its canvas in both directions,
\* with a tile missing.
C8_Witness ==
    /\ pc = "done"
    /\ canvas.w > panorama[1].w
    /\ canvas.h > panorama[1].h
    /\ panorama[1].w > 0
    /\ \E c \in DOMAIN future : future[c].tile = <<>>

\* The window of crop_fov: its pixel bounds, and whether it crosses an edge.
WindowLeft == fov_left(image.w, center_yaw % 360, fov_degrees)

WindowRight == fov_right(image.w, center_yaw % 360, fov_degrees)

WindowWraps == WindowLeft < 0 \/ WindowRight > image.w

\* Python's round(n / d) for n >= 0, d > 0: to the nearest, ties to even.
Round(n, d) ==
    LET q == n \div d
        r == n % d
    IN  IF 2 * r < d THEN q
        ELSE IF 2 * r > d THEN q + 1
        ELSE IF q % 2 = 0 THEN q ELSE q + 1

\* C9 (as claimed): when the window of a field of view below 360 crosses the
\* left or the right edge, crop_fov returns an image of full height whose
\* column i is input column (left + i) mod W, row for row.
C9_SeamlessWrap ==
    (pc = "cropped_fov" /\ fov_degrees < 360 /\ WindowWraps) =>
        /\ ~cropped.raised
        /\ cropped.image.h = image.h
        /\ \A p \in DOMAIN cropped.image.px :
              cropped.image.px[p] = image.px[<<(WindowLeft + p[1]) % image.w, p[2]>>]

\* C10 (as claimed): for a field of view in [60, 360) crop_fov returns,
\* without raising, an image of width round(fov / 360 * W) and height H.
C10_FovOutputSize ==
    (pc = "cropped_fov" /\ fov_degrees >= 60 /\ fov_degrees < 360) =>
        /\ ~cropped.raised
        /\ cropped.image.w = Round(fov_degrees * image.w, 360)
        /\ cropped.image.h = image.h

\* C11: with a field of view of 360 or more, crop_fov, and
\* crop_horizontal_section with clip direction "none", return the input
\* image itself, whatever the yaw.
C11_FullCircleIdentity ==
    (fov_degrees >= 360
        /\ (pc = "cropped_fov" \/ (pc = "cropped_section" /\ clip_direction = "none")))
    => cropped = CropOk(image)

\* C11 witness: crop_horizontal_section has returned for a yaw outside
\* [0, 360) and a field of view above 360.
C11_Witness ==
    /\ pc = "cropped_section"
    /\ clip_direction = "none"
    /\ center_yaw = 720
    /\ fov_degrees > 360
    /\ image.w > 1
    /\ cropped = CropOk(image)

\* C12 (as claimed): crop_horizontal_section with clip direction "left"
\* returns the image crop_fov returns for the yaw (yaw + 180) mod 360 and a
\* field of view of 180, pixel for pixel, whatever the fov argument.
C12_ClipEquivalence ==
    (pc = "cropped_section" /\ clip_direction = "left") =>
        cropped = crop_fov(image, (center_yaw + 180) % 360, 180)

\* C13 (as claimed): with clip direction "left" or "right",
\* crop_horizontal_section returns an image of width W div 2 and of the
\* input's height, whatever the yaw and the fov argument.
C13_ClipOverridesFov ==
    (pc = "cropped_section" /\ clip_direction \in {"left", "right"}) =>
        /\ ~cropped.raised
        /\ cropped.image.w = image.w \div 2
        /\ cropped.image.h = image.h

\* C14 (as claimed): when process_single_url runs with a field of view below
\* 360 and a clip of "left" or "right" on a URL that carries a yaw (and no
\* resize), the saved image is half as wide as the stitched panorama.
C14_ClipPrecedence ==
    (pc = "ps_saved" /\ fov_degrees # 0 /\ fov_degrees < 360 /\ url_yaw # NoYaw
        /\ clip_direction \in {"left", "right"} /\ max_width = 0)
    => files["output"].w = panorama[1].w \div 2

\* keep_fraction clamped to [0, 1], in eighths.
KeptEighths == IF keep_fraction < 0 THEN 0 ELSE IF keep_fraction > 8 THEN 8 ELSE keep_fraction

\* The top rows [0, rows) of the input image at full width.
TopRows(rows) ==
    [w |-> image.w, h |-> rows, px |-> [q \in Positions(image.w, rows) |-> image.px[q]]]

\* C15 (as claimed): crop_bottom_fraction returns the image unchanged for a
\* keep fraction of 1 or more, and otherwise exactly the rows
\* [0, floor(H * k)) at full width for the fraction k clamped to [0, 1],
\* which is no row at all for a keep fraction of 0 or less.
C15_BottomCrop ==
    pc = "cropped_bottom" =>
        IF keep_fraction >= 8
        THEN cropped = CropOk(image)
        ELSE cropped = CropOk(TopRows((image.h * KeptEighths) \div 8))

\* C15 (amended): as claimed, except that at least one row is kept: the
\* result is the rows [0, max(1, floor(H * k))).
C15_BottomCropKeepsOneRow ==
    pc = "cropped_bottom" =>
        IF keep_fraction >= 8
        THEN cropped = CropOk(image)
        ELSE LET rows == (image.h * KeptEighths) \div 8
             IN  cropped = CropOk(TopRows(IF rows >= 1 THEN rows ELSE 1))

\* C15 witness: a keep fraction of 0 or less on an image of several rows,
\* of which the first is returned.
C15_Witness ==
    /\ pc = "cropped_bottom"
    /\ keep_fraction <= 0
    /\ image.h > 1
    /\ cropped.image.h = 1
    /\ cropped.image.w = image.w

\* C16: at every moment, if the instance has sent a metadata or tile
\* request then a session creation has succeeded before; at most one
\* session creation ever succeeds; and every metadata and tile request
\* carries the token that creation returned, which is the cached one.
C16_SessionProtocol ==
    /\ Cardinality(SessionsCreated) <= 1
    /\ \A r \in sent :
          r.endpoint # "createSession" =>
              /\ SessionsCreated # {}
              /\ r.session # NoSession
              /\ r.session = session_cache
              /\ \A c \in SessionsCreated : r.session = c.issued

\* C16 witness: the third call on one instance is sending tile requests;
\* a session creation failed and one succeeded, and a metadata request was
\* sent by an earlier call.
C16_Witness ==
    /\ calls = 3
    /\ pc = "ss_dp_tiles"
    /\ Request("createSession", NoSession, NoSession) \in sent
    /\ Request("createSession", NoSession, session_cache) \in sent
    /\ Request("metadata", session_cache, NoSession) \in sent
    /\ Request("tile", session_cache, NoSession) \in sent

\* The files the invocation wrote for the URL it was working on.
FilesOfCurrentUrl == {k \in DOMAIN files : k[1] = url_index}

\* C17 (as claimed): when KeyboardInterrupt arrives while process_single_url
\* is fetching tiles, the invocation has written no file at all for that URL.
C17_CancelledLeavesNothing ==
    interrupted = "psu_download" => FilesOfCurrentUrl = {}

\* C17 (amended): when KeyboardInterrupt arrives while process_single_url is
\* fetching tiles, the invocation ends with no image file for that URL; the
\* metadata file of --metadata, written before the download, is the only
\* file of that URL, and it is there exactly when --metadata was given.
C17_CancelledLeavesNoImage ==
    interrupted = "psu_download" =>
        /\ pc \in {"exit_1", "batch_aborted"}
        /\ <<url_index, "image">> \notin DOMAIN files
        /\ FilesOfCurrentUrl = IF metadata THEN {<<url_index, "metadata">>} ELSE {}

\* C17 witness: the interrupt arrived when some but not all tiles were on
\* the canvas, with --metadata given.
C17_Witness ==
    /\ interrupted = "psu_download"
    /\ completed_tiles > 0
    /\ completed_tiles < MaxCliTiles
    /\ metadata
    /\ pc = "exit_1"

\* C18 (as claimed): once KeyboardInterrupt has been raised in the
\* coordinating thread during download_panorama, no fetch that had not
\* started is started: the set of running fetches only shrinks.
C18_NoNewFetchAfterInterrupt ==
    [][interrupted # "" => running' \subseteq running]_vars

\* C19: process_batch calls process_single_url for the URLs of the file in
\* file order, each once; whatever a URL raises (any Exception), the loop
\* goes on with the next URL - it is left early only by KeyboardInterrupt -
\* and at the summary every URL has been processed and success_count +
\* error_count is the number of URLs.
C19_BatchIsolation ==
    batch =>
        /\ Len(processed) <= Len(urls)
        /\ \A k \in DOMAIN processed : processed[k] = k
        /\ pc = "batch_loop" => success_count + error_count = Len(processed)
        /\ pc = "batch_aborted" => interrupted # ""
        /\ pc = "batch_done" =>
              /\ Len(processed) = Len(urls)
              /\ success_count + error_count = Len(urls)

\* C19 witness: a batch of three URLs is complete; the first had no
\* panorama id, another failed too, and one succeeded.
C19_Witness ==
    /\ batch
    /\ pc = "batch_done"
    /\ Len(urls) = 3
    /\ urls[1] = "no_id"
    /\ urls[2] = "good"
    /\ urls[3] = "good"
    /\ error_count = 2
    /\ success_count = 1

\* The first value a thumbnail query gives for a key, <<>> if it has none.
ThumbnailValue(key) ==
    LET qs == url.thumbnail[1]
        at == {i \in DOMAIN qs : qs[i][1] = key}
    IN  IF at = {} THEN <<>> ELSE <<qs[CHOOSE i \in at : \A j \in at : i <= j][2]>>

\* C20: with an embedded thumbnail URL the id is the thumbnail's panoid (no
\* id if it has none), and yaw and pitch are the thumbnail's yaw and pitch
\* when it gives both as numbers; without a thumbnail the result is the
\* !3m5!1s token, else the direct panoid= value, both with yaw and pitch
\* absent; with none of the three there is no id.  A caller that got no id
\* raises, a caller that got one goes on to the metadata request.
C20_ResolverPriority ==
    pc # "url_input" =>
        /\ IF url.thumbnail # <<>>
           THEN /\ resolved.pano_id = ThumbnailValue("panoid")
                /\ ThumbnailValue("yaw") = <<"123.45">> /\ ThumbnailValue("pitch") = <<"-1.5">>
                      => resolved.yaw = <<12345>> /\ resolved.pitch = <<-150>>
           ELSE IF url.token # <<>>
           THEN resolved = [pano_id |-> url.token, yaw |-> <<>>, pitch |-> <<>>]
           ELSE IF url.direct # <<>>
           THEN resolved = [pano_id |-> url.direct, yaw |-> <<>>, pitch |-> <<>>]
           ELSE resolved = [pano_id |-> <<>>, yaw |-> <<>>, pitch |-> <<>>]
        /\ pc \in {"dfu_ValueError", "psu_ClickException"} <=>
              (pc # "extracted" /\ resolved.pano_id = <<>>)

\* C20 witness: a URL with the token and the direct parameter but no
\* thumbnail went through process_single_url with the token as its id.
C20_Witness ==
    /\ pc = "psu_get_metadata"
    /\ url.thumbnail = <<>>
    /\ url.token # <<>>
    /\ url.direct # <<>>
    /\ resolved.pano_id = url.token

\* C21: for every metadata record and every quality name, known or not, the
\* tile counts process_single_url computes before the download (tiles_x,
\* tiles_y, total_tiles) are the counts of the grid download_panorama plans,
\* and total_tiles is the number of coordinates it fetches.
C21_EstimateMatchesPlan ==
    pc = "planned" =>
        /\ progress.tiles_x = grid.tiles_x
        /\ progress.tiles_y = grid.tiles_y
        /\ progress.total_tiles = grid.total_tiles
        /\ progress.total_tiles = Cardinality(CoordSet(grid))

\* C21 witness: a quality name outside low/medium/high, a grid of several
\* columns and rows whose count differs from the one zoom 4 would give.
C21_Witness ==
    /\ pc = "planned"
    /\ quality \notin Qualities
    /\ grid.tiles_x >= 2
    /\ grid.tiles_y >= 2
    /\ grid.total_tiles # TileGrid(meta, "medium").total_tiles
    /\ progress.total_tiles = grid.total_tiles

\* C22: with no environment override and requested concurrency 0, for every
\* core count >= 1 the worker counts of the three tiers satisfy
\* 1 <= low <= medium <= high <= 32, low <= 8, medium <= 12, high <= 16, and
\* the count returned is the one of the quality's tier.
C22_TunedBounds ==
    (pc = "tuned" /\ concurrency = 0 /\ env = "" /\ cpu_count >= 1) =>
        LET low == determine_concurrency("low", 0, "", cpu_count)
            medium == determine_concurrency("medium", 0, "", cpu_count)
            high == determine_concurrency("high", 0, "", cpu_count)
        IN  /\ 1 <= low /\ low <= medium /\ medium <= high /\ high <= 32
            /\ low <= 8 /\ medium <= 12 /\ high <= 16
            /\ quality = "low" => tuned = low
            /\ quality = "medium" => tuned = medium
            /\ quality = "high" => tuned = high
            /\ 1 <= tuned /\ tuned <= 16

\* C22 witness: auto-tuning on a machine with more cores than any cap.
C22_Witness ==
    /\ pc = "tuned"
    /\ concurrency = 0
    /\ env = ""
    /\ cpu_count > 16
    /\ quality = "high"
    /\ tuned = 16

\* What the claim calls a transient failure: HTTP 429, 500, 502, 503 or 504,
\* or a connect or read timeout.
Transient(o) ==
    \/ o.kind = "http" /\ o.status \in {429, 500, 502, 503, 504}
    \/ o.kind = "error" /\ o.error \in {"ConnectTimeoutError", "ReadTimeoutError"}

RequestEnded == pc \in {"rq_response", "rq_ConnectionError"}

\* C23 (as claimed): attempt k+1 of an HTTP request is made only if attempt k
\* ended in a transient failure and k <= retries; a response with any other
\* 4xx status ends the request after that attempt.
C23_RetryOnlyTransient ==
    \A k \in 1 .. Len(history) :
        /\ k < Len(history) => (Transient(history[k]) /\ k <= retries)
        /\ (/\ history[k].kind = "http"
            /\ history[k].status \in 400 .. 499
            /\ history[k].status # 429)
              => (k = Len(history) /\ RequestEnded)

CropStages == {"crop_fov", "clip", "crop_bottom_fraction"}

FilterStages == {"apply_filter", "adjust_image"}

OutputStages == {"save", "write_xmp_metadata"}

\* C24 (as claimed): in process_single_url every cropping step (field of view,
\* clip, bottom fraction) is applied before any filter or adjustment, and
\* filters are applied before the image is saved and before the XMP metadata
\* is embedded.
C24_StageOrdering ==
    \A i, j \in 1 .. Len(applied) :
        i < j =>
            /\ ~(applied[i] \in FilterStages /\ applied[j] \in CropStages)
            /\ ~(applied[i] \in OutputStages /\ applied[j] \in FilterStages \cup CropStages)

\* The coordinates handed to executor.submit so far, and where each one is.
SubmittedCoords == {coords(grid)[i] : i \in 1 .. submitted}

QueuedCoords == {work_queue[i] : i \in 1 .. Len(work_queue)}

FinishedCoords == {c \in DOMAIN future : Finished(c)}

\* The coordinate list is the planned range, each coordinate once.
C25_CoordsAreRange ==
    /\ Len(coords(grid)) = grid.tiles_x * grid.tiles_y
    /\ CoordSet(grid) = (0 .. grid.tiles_x - 1) \X (0 .. grid.tiles_y - 1)
    /\ \A i, j \in 1 .. Len(coords(grid)) : coords(grid)[i] = coords(grid)[j] => i = j

C25_PlanInv ==
    /\ (pc = "dp_submit" /\ submitted = 0) => C25_CoordsAreRange
    /\ submitted <= grid.total_tiles
    /\ \A i, j \in 1 .. Len(work_queue) : work_queue[i] = work_queue[j] => i = j
    /\ SubmittedCoords = QueuedCoords \cup running \cup FinishedCoords
    /\ QueuedCoords \cap running = {}
    /\ QueuedCoords \cap FinishedCoords = {}
    /\ running \cap FinishedCoords = {}
    /\ \A c \in DOMAIN attempts : attempts[c] > 0 => c \in running \cup FinishedCoords
    /\ consumed \subseteq FinishedCoords
    /\ pc \in {"dp_as_completed", "dp_paste", "done"} => submitted = Len(coords(grid))
    /\ pc \in {"dp_as_completed", "dp_paste"} =>
          completed_tiles = Cardinality(consumed) - (IF pc = "dp_paste" THEN 1 ELSE 0)
    /\ pc = "done" =>
          /\ consumed = CoordSet(grid)
          /\ completed_tiles = grid.total_tiles

C25_PlanStep ==
    /\ submitted' \in {submitted, submitted + 1}
    /\ \A c \in DOMAIN future :
          Finished(c) => (c \in DOMAIN future' /\ future'[c] = future[c] /\ c \notin running')
    /\ consumed' # consumed =>
          \E c \in FinishedCoords \ consumed : consumed' = consumed \cup {c}

C26_FetchLoopTerminates ==
    (pc = "dp_submit") ~> (pc = "done" /\ consumed = CoordSet(grid))

\* The coordinates whose tile the coordinator has pasted.
PastedCoords ==
    {c \in consumed :
        /\ future[c].tile # <<>>
        /\ ~(pc = "dp_paste" /\ cur.x = c[1] /\ cur.y = c[2])}

\* The pixel of coordinate c's fetched tile that belongs at canvas position p.
TilePixelAt(c, p) ==
    future[c].tile[1].px[<<p[1] - c[1] * meta.tile_width, p[2] - c[2] * meta.tile_height>>]

\* The canvas holds, for each pasted coordinate, that coordinate's tile, and
\* background everywhere else.
CanvasDetermined ==
    \A p \in DOMAIN canvas.px :
        canvas.px[p] = IF CoordOf(p) \in PastedCoords
                       THEN TilePixelAt(CoordOf(p), p)
                       ELSE Background

\* The returned image holds at each position the pixel of its coordinate's
\* tile, or background where that tile is missing.
PanoramaDetermined ==
    \A p \in DOMAIN panorama[1].px :
        panorama[1].px[p] = IF future[CoordOf(p)].tile # <<>>
                            THEN TilePixelAt(CoordOf(p), p)
                            ELSE Background

\* C27: with tiles no larger than tile_width x tile_height, every change of
\* the canvas leaves it determined by the set of coordinates pasted so far,
\* whatever the order in which their fetches completed, and the image
\* download_panorama returns is determined by the tile outcomes alone.
C27_OrderIndependent ==
    /\ [](pc = "done" => PanoramaDetermined)
    /\ [][canvas' # canvas => CanvasDetermined']_vars

\* C27 witness: fetches completing out of submission order - the last
\* coordinate's tile is pasted on the canvas while the first coordinate,
\* whose tile will also be part of the image, is still being fetched.
C27_Witness ==
    /\ pc = "dp_as_completed"
    /\ concurrency >= 2
    /\ grid.tiles_x = 2
    /\ grid.tiles_y = 2
    /\ <<0, 0>> \in running
    /\ <<1, 1>> \in PastedCoords
    /\ \E p \in DOMAIN canvas.px : CoordOf(p) = <<1, 1>> /\ canvas.px[p] # Background

\* The coordinates whose request was answered 200 with a body that is no image.
Undecodable == {c \in DOMAIN future : Finished(c) /\ final_status[c] = 200 /\ future[c].tile = <<>>}

\* C28 (as claimed): a tile whose request succeeds at the HTTP level but whose
\* body cannot be decoded as an image is handled like any other failed tile -
\* its fetch yields a None result and not an exception - and it does not
\* abort download_panorama: the coordinator never leaves the loop by an
\* exception, and once all fetches have ended the download returns an image.
C28_UndecodableTolerated ==
    /\ \A c \in Undecodable : future[c] = NoneResult(c)
    /\ Undecodable # {} => pc \notin {"dp_shutdown", "error"}

\* C29 (as claimed): whenever the thumbnail pattern is found, the result is
\* that strategy's alone - without a panoid in its query string the id is
\* absent, whatever else the URL contains - and a yaw or pitch missing from
\* the query string is returned as 0.0, not as absent.
C29_NoFallback ==
    (pc # "url_input" /\ url.thumbnail # <<>>) =>
        /\ resolved.pano_id = ThumbnailValue("panoid")
        /\ ThumbnailValue("yaw") = <<>> => resolved.yaw = <<0>>
        /\ ThumbnailValue("pitch") = <<>> => resolved.pitch = <<0>>

\* C29 (amended): as above, but a missing yaw or pitch is 0.0 only when the
\* other one is missing too or is a number; when the one that is present is
\* not a number, both are absent.
C29_NoFallbackNumeric ==
    (pc # "url_input" /\ url.thumbnail # <<>>) =>
        /\ resolved.pano_id = ThumbnailValue("panoid")
        /\ IF ThumbnailValue("yaw") = <<"abc">> \/ ThumbnailValue("pitch") = <<"abc">>
           THEN resolved.yaw = <<>> /\ resolved.pitch = <<>>
           ELSE /\ resolved.yaw = IF ThumbnailValue("yaw") = <<>> THEN <<0>> ELSE <<12345>>
                /\ resolved.pitch = IF ThumbnailValue("pitch") = <<>> THEN <<0>> ELSE <<-150>>

\* C29 witness: a thumbnail without panoid and without yaw in a URL that
\* also has the token and the direct parameter: no id, yaw 0.0, and
\* process_single_url raises.
C29_Witness ==
    /\ pc = "psu_ClickException"
    /\ url.thumbnail # <<>>
    /\ url.token # <<>>
    /\ url.direct # <<>>
    /\ ThumbnailValue("panoid") = <<>>
    /\ ThumbnailValue("yaw") = <<>>
    /\ ThumbnailValue("pitch") # <<>>
    /\ resolved = [pano_id |-> <<>>, yaw |-> <<0>>, pitch |-> <<-150>>]

\* The section crop_horizontal_section is asked for: its field of view and
\* yaw after the clip direction is applied, and the floor of its left bound.
EffectiveFov == IF clip_direction \in {"left", "right"} THEN 180 ELSE fov_degrees

EffectiveYaw ==
    IF clip_direction = "left" THEN ((center_yaw % 360) + 180) % 360 ELSE center_yaw % 360

FloorLeft == section_left(image.w, EffectiveYaw, EffectiveFov) \div 720

\* C30: for an effective field of view below 360, every column i of the image
\* crop_horizontal_section returns is a full-height copy of input column
\* (floor(left) + i) mod W, in the non-wrapping case and in both wraparound
\* branches: no column of the result is left at the background.
C30_NoBlankColumns ==
    (pc = "cropped_section" /\ EffectiveFov < 360) =>
        /\ ~cropped.raised
        /\ cropped.image.h = image.h
        /\ DOMAIN cropped.image.px = Positions(cropped.image.w, image.h)
        /\ \A p \in DOMAIN cropped.image.px :
              cropped.image.px[p] = image.px[<<(FloorLeft + p[1]) % image.w, p[2]>>]

\* C30 witness: a section that crosses the left edge, pasted from two
\* segments of several columns each.
C30_Witness ==
    /\ pc = "cropped_section"
    /\ EffectiveFov < 360
    /\ FloorLeft < -1
    /\ cropped.image.w > -FloorLeft + 1
    /\ cropped.image.h > 1

====
